---------------------------- MODULE Spec2Model ----------------------------
(***************************************************************************)
(* A model of the GitHub-issues mirror for Obsidian: the persist-block     *)
(* codec (util/persistUtils.ts), the reconciliation of remote items with   *)
(* local documents (file-manager.ts) and the sync passes that drive it     *)
(* (main.ts, github-client.ts).                                            *)
(*                                                                         *)
(* Text is a sequence of tokens.  A token stands for a run of characters:  *)
(* a newline, a space, a word, a persist marker, a header line's key and   *)
(* value.  Offsets are token indices; the code only ever compares the      *)
(* offset of a match with the offset of a line start, and both are token   *)
(* boundaries, so the comparison is the same in characters and in tokens.  *)
(***************************************************************************)
EXTENDS Integers, Sequences, FiniteSets, TLC

VARIABLES
    settings,   \* the plugin's settings (repositories, global defaults, ...)
    locale,     \* the locale of the host, for toLocaleString()
    octokit,    \* the remote client is initialised
    now,        \* the clock
    remote,     \* the items of the remote source
    files,      \* the documents of the vault
    folders,    \* the folders of the vault
    isSyncing,  \* the plugin's "currently syncing" flag
    passes,     \* the sync passes between their start and their end
    notice,     \* the last notice shown
    log,        \* what the current or the last pass did
    stable,     \* a full pass ended without failure and nothing moved since
    budget,     \* what is left of the bounds of a run
    oldDoc,     \* persist codec: the existing document's content
    newDoc,     \* persist codec: the freshly rendered content
    merged,     \* persist codec: the content written by the overwrite
    ppc,        \* persist codec: "ready" before the overwrite, "done" after
    call,       \* a function of the plugin applied on its own, with its inputs
    returned,   \* what the function returned
    background  \* the plugin's life cycle and its periodic sync timer

pvars == <<oldDoc, newDoc, merged, ppc>>

svars == <<settings, locale, octokit, now, remote, files, folders, isSyncing,
           passes, notice, log, stable, budget>>

cvars == <<call, returned>>

tvars == <<background>>

vars == <<svars, pvars, cvars, tvars>>

----------------------------------------------------------------------------
(* Tokens *)

Tok(k, s, i) == [k |-> k, s |-> s, i |-> i]

NL == Tok("nl", "", 0)
SP == Tok("sp", "", 0)
Txt(s) == Tok("txt", s, 0)
DASH == Txt("---")

\* A header line "key: value".
HeaderLine(key, value) == Tok(key, value, 0)

\* {% persist "name" %} is style 0; {% persist 'name' %} is style 1.  Both
\* match the opening pattern, and both contain the literal "{% persist".
OpenM(name, style) == Tok("open", name, style)
\* {% endpersist %} is style 0; {%endpersist%} is style 1.  Both match the
\* closing pattern; only style 0 contains the literal "{% endpersist %}".
CloseM(style) == Tok("close", "", style)

Max(a, b) == IF a > b THEN a ELSE b
Min(a, b) == IF a < b THEN a ELSE b

\* First index >= from of a token of kind k in s, 0 when there is none.
FirstKind(s, k, from) ==
    LET hits == {i \in from..Len(s) : s[i].k = k}
    IN IF hits = {} THEN 0 ELSE CHOOSE i \in hits : \A j \in hits : i <= j

\* content.split('\n'): the lines of s, at least one.
RECURSIVE SplitLines(_)
SplitLines(s) ==
    LET i == FirstKind(s, "nl", 1)
    IN IF i = 0 THEN <<s>>
       ELSE <<SubSeq(s, 1, i - 1)>> \o SplitLines(SubSeq(s, i + 1, Len(s)))

\* lines.join('\n')
RECURSIVE JoinLines(_)
JoinLines(ls) ==
    IF Len(ls) = 0 THEN <<>>
    ELSE IF Len(ls) = 1 THEN ls[1]
    ELSE ls[1] \o <<NL>> \o JoinLines(Tail(ls))

IsSpace(t) == t.k \in {"sp", "nl"}

\* String.prototype.trim
RECURSIVE Trim(_)
Trim(s) ==
    IF Len(s) = 0 THEN s
    ELSE IF IsSpace(s[1]) THEN Trim(Tail(s))
    ELSE IF IsSpace(s[Len(s)]) THEN Trim(SubSeq(s, 1, Len(s) - 1))
    ELSE s

\* line.includes('{% persist')
IncludesPersist(line) == \E i \in 1..Len(line) : line[i].k = "open"

\* line.includes('{% endpersist %}')
IncludesEndpersist(line) ==
    \E i \in 1..Len(line) : line[i].k = "close" /\ line[i].i = 0

\* s occurs in t as a contiguous run of tokens
Contains(t, s) ==
    \E i \in 0..(Len(t) - Len(s)) : SubSeq(t, i + 1, i + Len(s)) = s

----------------------------------------------------------------------------
(* util/persistUtils.ts *)

\* The successive non-greedy matches of
\*   {% persist "name" %} ... {% endpersist %}
\* in s from index `from` on: lo and hi are the indices of the two markers.
RECURSIVE PersistMatches(_, _)
PersistMatches(s, from) ==
    LET lo == FirstKind(s, "open", from)
        hi == IF lo = 0 THEN 0 ELSE FirstKind(s, "close", lo + 1)
    IN IF lo = 0 \/ hi = 0 THEN <<>>
       ELSE <<[name |-> s[lo].s, lo |-> lo, hi |-> hi]>>
            \o PersistMatches(s, hi + 1)

\* The names of ms in the order of their first occurrence (the key order of
\* the Map the code fills with persistBlocks.set).
RECURSIVE FirstOccurrences(_, _)
FirstOccurrences(ms, seen) ==
    IF Len(ms) = 0 THEN <<>>
    ELSE IF ms[1].name \in seen THEN FirstOccurrences(Tail(ms), seen)
    ELSE <<ms[1].name>> \o FirstOccurrences(Tail(ms), seen \cup {ms[1].name})

\* persistBlocks.set(blockName, ...) overwrites: the last block of a name wins.
BlockInfoOf(content, ms, name) ==
    LET idx == {i \in 1..Len(ms) : ms[i].name = name}
        m == ms[CHOOSE i \in idx : \A j \in idx : i >= j]
    IN [content |-> SubSeq(content, m.lo + 1, m.hi - 1),
        position |-> m.lo - 1,
        fullMatch |-> SubSeq(content, m.lo, m.hi)]

\* The Map of block names to PersistBlockInfo: its keys in insertion order
\* and its values.
extractPersistBlocks(content) ==
    LET ms == PersistMatches(content, 1)
        names == FirstOccurrences(ms, {})
    IN [names |-> names,
        info |-> [n \in {names[i] : i \in 1..Len(names)} |->
                     BlockInfoOf(content, ms, n)]]

PersistNames(pb) == {pb.names[i] : i \in 1..Len(pb.names)}

\* First pass of mergePersistBlocks: every block of the new content whose
\* name was saved gets the saved content between freshly written markers.
RECURSIVE ReplaceSavedBlocks(_, _, _)
ReplaceSavedBlocks(s, from, pb) ==
    LET lo == FirstKind(s, "open", from)
        hi == IF lo = 0 THEN 0 ELSE FirstKind(s, "close", lo + 1)
    IN IF lo = 0 \/ hi = 0 THEN SubSeq(s, from, Len(s))
       ELSE SubSeq(s, from, lo - 1)
            \o (IF s[lo].s \in PersistNames(pb)
                THEN <<OpenM(s[lo].s, 0)>> \o pb.info[s[lo].s].content
                     \o <<CloseM(0)>>
                ELSE SubSeq(s, lo, hi))
            \o ReplaceSavedBlocks(s, hi + 1, pb)

\* The start offset of line i (0-based) of lines ls.
RECURSIVE LineStart(_, _)
LineStart(ls, i) == IF i = 0 THEN 0 ELSE LineStart(ls, i - 1) + Len(ls[i]) + 1

\* The line of the old content the block is taken to start on: the first
\* line whose start offset is at or after the block's offset, 0 when none is.
OldLineNumber(oldLines, position) ==
    LET hits == {i \in 0..(Len(oldLines) - 1) : LineStart(oldLines, i) >= position}
    IN IF hits = {} THEN 0 ELSE CHOOSE i \in hits : \A j \in hits : i <= j

\* The first line at or after oldLineNumber that holds "{% endpersist %}".
BlockEndLine(oldLines, oldLineNumber) ==
    LET hits == {i \in oldLineNumber..(Len(oldLines) - 1) :
                    IncludesEndpersist(oldLines[i + 1])}
    IN IF hits = {} THEN oldLineNumber
       ELSE CHOOSE i \in hits : \A j \in hits : i <= j

\* The test a line before the block passes to serve as context.
KeepBefore(line) == Len(line) > 0 /\ Trim(line) # <<DASH>> /\ ~IncludesPersist(line)
\* The test a line after the block passes to serve as context.
KeepAfter(line) == Len(line) > 0 /\ Trim(line) # <<>> /\ ~IncludesPersist(line)

\* The trimmed lines lo..hi-1 (0-based) of oldLines that pass the test of
\* their side ("before" or "after").
RECURSIVE ContextLines(_, _, _, _)
ContextLines(oldLines, lo, hi, side) ==
    IF lo >= hi THEN <<>>
    ELSE (IF (IF side = "before" THEN KeepBefore(oldLines[lo + 1])
                                 ELSE KeepAfter(oldLines[lo + 1]))
          THEN <<Trim(oldLines[lo + 1])>> ELSE <<>>)
         \o ContextLines(oldLines, lo + 1, hi, side)

\* The first index (0-based) of newLines whose trimmed line is `line`, -1 if none.
FindLine(newLines, line) ==
    LET hits == {i \in 0..(Len(newLines) - 1) : Trim(newLines[i + 1]) = line}
    IN IF hits = {} THEN -1 ELSE CHOOSE i \in hits : \A j \in hits : i <= j

\* The index after the closing delimiter of the header of newLines, 0 when
\* the first line is no delimiter or the header is not closed.
FrontmatterEnd(newLines) ==
    IF Len(newLines) > 0 /\ Trim(newLines[1]) = <<DASH>>
    THEN LET hits == {i \in 1..(Len(newLines) - 1) : Trim(newLines[i + 1]) = <<DASH>>}
         IN IF hits = {} THEN 0
            ELSE (CHOOSE i \in hits : \A j \in hits : i <= j) + 1
    ELSE 0

\* Math.floor(newLines.length * (oldLineNumber / oldLines.length)); the
\* floating-point product equals the integer quotient for fewer than 22 lines.
RelativeIndex(nNew, oldLineNumber, nOld) == (nNew * oldLineNumber) \div nOld

\* Where one block goes in newLines (0-based index of the element it is
\* spliced in front of).
InsertIndex(oldLines, newLines, position) ==
    LET oln == OldLineNumber(oldLines, position)
        before == ContextLines(oldLines, Max(0, oln - 2), oln, "before")
        bel == BlockEndLine(oldLines, oln)
        after == ContextLines(oldLines, bel + 1,
                              Min(Len(oldLines), bel + 3), "after")
        byBefore == IF Len(before) > 0
                    THEN LET i == FindLine(newLines, before[Len(before)])
                         IN IF i = -1 THEN -1 ELSE i + 1
                    ELSE -1
        byAfter == IF byBefore = -1 /\ Len(after) > 0
                   THEN FindLine(newLines, after[1])
                   ELSE byBefore
    IN IF byAfter # -1 THEN byAfter
       ELSE Max(RelativeIndex(Len(newLines), oln, Len(oldLines)),
                FrontmatterEnd(newLines))

\* newLines.splice(at, 0, elem)
Splice(ls, at, elem) ==
    LET a == Min(at, Len(ls))
    IN SubSeq(ls, 1, a) \o <<elem>> \o SubSeq(ls, a + 1, Len(ls))

\* The element spliced in for a block: a newline, then the block between
\* freshly written markers.
BlockText(name, info) ==
    <<NL, OpenM(name, 0)>> \o info.content \o <<CloseM(0)>>

RECURSIVE InsertBlocks(_, _, _, _)
InsertBlocks(oldLines, newLines, names, pb) ==
    IF Len(names) = 0 THEN newLines
    ELSE LET info == pb.info[names[1]]
             at == InsertIndex(oldLines, newLines, info.position)
         IN InsertBlocks(oldLines,
                         Splice(newLines, at, BlockText(names[1], info)),
                         Tail(names), pb)

insertPersistBlocksIntelligently(oldContent, newContent, names, pb) ==
    JoinLines(InsertBlocks(SplitLines(oldContent), SplitLines(newContent),
                           names, pb))

mergePersistBlocks(newContent, oldContent, pb) ==
    LET result == ReplaceSavedBlocks(newContent, 1, pb)
        ms == PersistMatches(newContent, 1)
        processedBlocks == {ms[i].name : i \in 1..Len(ms)}
        blocksToInsert == SelectSeq(pb.names, LAMBDA n : n \notin processedBlocks)
    IN IF Len(blocksToInsert) > 0
       THEN insertPersistBlocksIntelligently(oldContent, result, blocksToInsert, pb)
       ELSE result

\* The update branch of createOrUpdateIssueFile once the staleness check has
\* passed: what vault.modify writes.
UpdatedContent(existingContent, rendered) ==
    LET persistBlocks == extractPersistBlocks(existingContent)
    IN IF Len(persistBlocks.names) > 0
       THEN mergePersistBlocks(rendered, existingContent, persistBlocks)
       ELSE rendered


----------------------------------------------------------------------------
(* Time and dates.  Time is counted in ticks; a day has TicksPerDay ticks. *)
(* An ISO timestamp of the remote source is the tick it names.             *)

\* Bound: the ticks of a day (at least 2, so that a time of day exists).
TicksPerDay == 2
\* Bound: the last tick the clock reaches.
MaxTime == 5

\* settings.dateFormat: "" (none: the loc's default rendering), a format
\* with date and time, a format with the date alone.
DateFormats == {"", "yyyy-MM-dd HH:mm:ss", "yyyy-MM-dd"}

\* The locale of toLocaleString(): one whose rendering new Date() parses
\* back, one whose rendering it does not (the result is an invalid date).
Locales == {"en-US", "de-DE"}

NaN == -1

\* format(date, dateFormat) for a configured format, else toLocaleString():
\* the text of the date, as the form it is written in and the value that
\* form keeps.
FormatDateTime(t, dateFormat, loc) ==
    IF dateFormat = "yyyy-MM-dd" THEN [form |-> "date", v |-> t \div TicksPerDay]
    ELSE IF dateFormat # "" THEN [form |-> "datetime", v |-> t]
    ELSE [form |-> loc, v |-> t]

\* format(date, dateFormat) for a configured format, else
\* toLocaleDateString(): the rendering of {updated} in a template.
FormatTemplateDate(t, dateFormat, loc) ==
    IF dateFormat = "yyyy-MM-dd" THEN [form |-> "date", v |-> t \div TicksPerDay]
    ELSE IF dateFormat # "" THEN [form |-> "datetime", v |-> t]
    ELSE [form |-> loc, v |-> (t \div TicksPerDay) * TicksPerDay]

\* new Date(text).getTime(): a date-only text is midnight of its day, a
\* text the engine cannot parse is the invalid date.
ParseDate(form, v) ==
    IF form = "date" THEN v * TicksPerDay
    ELSE IF form \in {"datetime", "en-US"} THEN v
    ELSE NaN

\* a > b on Date objects: false when either is the invalid date.
DateAfter(a, b) == a # NaN /\ b # NaN /\ a > b

\* existingContent.match(/^updated:\s*["']?([^"'\n]+)["']?$/m): the first
\* line that is an "updated: value" line, <<>> if none.
UpdatedMatch(existingContent) ==
    LET ls == SplitLines(existingContent)
        hits == {i \in 1..Len(ls) : Len(ls[i]) = 1 /\ ls[i][1].k = "updated"}
    IN IF hits = {} THEN <<>>
       ELSE ls[CHOOSE i \in hits : \A j \in hits : i <= j]

shouldUpdateContent(existingContent, githubUpdatedAt) ==
    LET updatedMatch == UpdatedMatch(existingContent)
    IN IF updatedMatch = <<>> THEN TRUE
       ELSE DateAfter(githubUpdatedAt,
                      ParseDate(updatedMatch[1].s, updatedMatch[1].i))

----------------------------------------------------------------------------
(* Settings (types.ts, util/settingsUtils.ts).  The per-kind fields of a   *)
(* repository (issueUpdateMode / pullRequestUpdateMode, ...) are functions *)
(* of the kind.                                                            *)

Kinds == {"issue", "pr"}

\* number.toString() for the numbers of the model
NumStr(n) == <<"1", "2", "3">>[n]

\* A filename template is the sequence of its literal parts and variables.
IssueNumberTemplate == <<"Issue - ", "{number}">>
PrNumberTemplate == <<"PR - ", "{number}">>
PullRequestFallbackTemplate == <<"Pull Request - ", "{number}">>
TitleTemplate == <<"{title}", " - ", "{number}">>

\* repo.repository.split("/"): the owner and the name, "" for a missing part
Owner(repo) == IF Len(repo.repository) >= 1 THEN repo.repository[1] ELSE ""
RepoName(repo) == IF Len(repo.repository) >= 2 THEN repo.repository[2] ELSE ""
ValidRepository(repo) == Owner(repo) # "" /\ RepoName(repo) # ""

\* A mutant of getEffectiveRepoSettings that takes the folder from the
\* global defaults whatever the custom flag says.
getEffectiveRepoSettingsGlobalFolder(repo, globalDefaults) ==
    IF repo.ignoreGlobalSettings THEN repo
    ELSE [repo EXCEPT
            !.updateMode = globalDefaults.updateMode,
            !.allowDelete = globalDefaults.allowDelete,
            !.folder = globalDefaults.folder,
            !.noteTemplate = globalDefaults.noteTemplate,
            !.contentTemplate = [k \in Kinds |->
                          IF repo.useCustomContentTemplate[k]
                          THEN repo.contentTemplate[k]
                          ELSE globalDefaults.contentTemplate[k]],
            !.includeComments = globalDefaults.includeComments]

getEffectiveRepoSettings(repo, globalDefaults) ==
    IF repo.ignoreGlobalSettings THEN repo
    ELSE [repo EXCEPT
            !.updateMode = globalDefaults.updateMode,
            !.allowDelete = globalDefaults.allowDelete,
            !.folder = [k \in Kinds |->
                          IF repo.useCustomFolder[k] THEN repo.customFolder[k]
                          ELSE globalDefaults.folder[k]],
            !.noteTemplate = globalDefaults.noteTemplate,
            !.contentTemplate = [k \in Kinds |->
                          IF repo.useCustomContentTemplate[k]
                          THEN repo.contentTemplate[k]
                          ELSE globalDefaults.contentTemplate[k]],
            !.includeComments = globalDefaults.includeComments]

\* getIssueFolderPath / getPullRequestFolderPath: a path is the sequence of
\* its components; the empty path is the empty (or blank) string.
getFolderPath(repo, k) ==
    IF repo.useCustomFolder[k] /\ repo.customFolder[k] # <<>>
    THEN repo.customFolder[k]
    ELSE repo.folder[k] \o <<Owner(repo), RepoName(repo)>>

\* file.path.startsWith(prefix + "/") for a file of the folder dir
IsUnder(dir, prefix) ==
    Len(dir) >= Len(prefix) /\ SubSeq(dir, 1, Len(prefix)) = prefix

----------------------------------------------------------------------------
(* Templates (util/templateUtils.ts), as far as reconciliation uses them.  *)

\* processFilenameTemplate and the ".md" the caller adds: the rendered
\* parts of the template.
FileName(template, issue) ==
    [i \in 1..Len(template) |->
        IF template[i] = "{number}" THEN NumStr(issue.number)
        ELSE IF template[i] = "{title}" THEN issue.title
        ELSE IF template[i] = "{status}" THEN issue.state
        ELSE IF template[i] = "{author}" THEN "unknown"
        ELSE template[i]] \o <<".md">>

IsDigits(str) == str \in {"1", "2", "3"}

\* The parts of a template that are variables; every other part is text
\* without characters that are special in a regular expression.
TemplateVariables == {"{number}", "{title}", "{status}", "{author}"}

\* escapeRegExp(template): a backslash goes before every special character,
\* so a variable "{name}" becomes "\{name\}".  A piece of a pattern is text
\* (k = "text"), a variable in braces (k = "brace", s the part, close the
\* characters that close it) or an expression that stands for one.
escapeRegExp(template) ==
    [i \in 1..Len(template) |->
        IF template[i] \in TemplateVariables
        THEN [k |-> "brace", s |-> template[i], close |-> "\\}"]
        ELSE [k |-> "text", s |-> template[i], close |-> ""]]

\* The expression that extractNumberFromFilename puts for a variable it
\* names: (\d+) for {number}, .*? for {title}, \w+ for {status}, [^\s]+ for
\* {author}.
NamedExpression ==
    [v \in TemplateVariables |->
        IF v = "{number}" THEN "digits"
        ELSE IF v = "{title}" THEN "any"
        ELSE IF v = "{status}" THEN "word" ELSE "nospace"]

\* pattern.replace(/\\?\{name\}/g, ...) for each variable it names: the "}"
\* has to follow the name at once.
ReplaceNamed(pattern) ==
    [i \in 1..Len(pattern) |->
        IF pattern[i].k = "brace" /\ pattern[i].close = "}"
        THEN [k |-> NamedExpression[pattern[i].s], s |-> "", close |-> ""]
        ELSE pattern[i]]

\* pattern.replace(/\\?\{[^}]+\}/g, '.*?'): whatever is left in braces, a
\* backslash before the "}" included.
ReplaceRemaining(pattern) ==
    [i \in 1..Len(pattern) |->
        IF pattern[i].k = "brace" THEN [k |-> "any", s |-> "", close |-> ""]
        ELSE pattern[i]]

\* baseFilename.match(new RegExp(`^${pattern}$`)): part by part.
PatternMatches(base, pattern) ==
    /\ Len(base) = Len(pattern)
    /\ \A i \in 1..Len(pattern) :
          \/ pattern[i].k = "text" /\ base[i] = pattern[i].s
          \/ pattern[i].k = "digits" /\ IsDigits(base[i])
          \/ pattern[i].k \in {"any", "word", "nospace"}

\* match[1] of a match: the part the first group (\d+) captured, "" (the
\* value is undefined) when the pattern has no group.
FirstGroup(base, pattern) ==
    LET at == {i \in 1..Len(pattern) : pattern[i].k = "digits"}
    IN IF at = {} THEN "" ELSE base[CHOOSE i \in at : \A j \in at : i <= j]

\* extractNumberFromFilename: "" stands for null.
extractNumberFromFilename(filename, template) ==
    LET base == IF Len(filename) > 0 /\ filename[Len(filename)] = ".md"
                THEN SubSeq(filename, 1, Len(filename) - 1) ELSE filename
        pattern == ReplaceRemaining(ReplaceNamed(escapeRegExp(template)))
    IN IF PatternMatches(base, pattern) THEN FirstGroup(base, pattern) ELSE ""

\* The built-in layout of createIssueContent / createPullRequestContent.
\* Of the header the lines reconciliation reads or that vary are kept.
DefaultContent(issue, repo, k, dateFormat, loc) ==
    LET u == FormatDateTime(issue.updated_at, dateFormat, loc)
    IN JoinLines(<<
        <<DASH>>,
        <<HeaderLine("title", issue.title)>>,
        <<Tok("number", "", issue.number)>>,
        <<HeaderLine("status", issue.state)>>,
        <<Tok("updated", u.form, u.v)>>,
        <<HeaderLine("updateMode", repo.updateMode[k])>>,
        <<HeaderLine("allowDelete", IF repo.allowDelete[k] THEN "true" ELSE "false")>>,
        <<DASH>>,
        <<>>,
        <<Tok("heading", issue.title, 0)>>,
        <<Txt("body")>>,
        <<>> >>)

\* processContentTemplate on the template file shipped with the plugin
\* (templates/default-issue-template.md): its header has no "updated" line
\* and fixed updateMode and allowDelete lines; {updated} is in the body.
TemplateContent(issue, dateFormat, loc) ==
    LET u == FormatTemplateDate(issue.updated_at, dateFormat, loc)
    IN JoinLines(<<
        <<DASH>>,
        <<HeaderLine("title", issue.title)>>,
        <<Tok("number", "", issue.number)>>,
        <<HeaderLine("status", issue.state)>>,
        <<HeaderLine("updateMode", "none")>>,
        <<HeaderLine("allowDelete", "true")>>,
        <<DASH>>,
        <<>>,
        <<Tok("heading", issue.title, 0)>>,
        <<Txt("body")>>,
        <<Txt("- **Updated:** "), Tok("date", u.form, u.v)>> >>)

\* createIssueContent / createPullRequestContent: the template file when the
\* repository's custom flag is set and the file is readable and not empty
\* (templateFiles: the readable template files), else the built-in layout.
createContent(issue, repo, k, dateFormat, loc, templateFiles) ==
    IF repo.useCustomContentTemplate[k] /\ repo.contentTemplate[k] # ""
       /\ repo.contentTemplate[k] \in templateFiles
    THEN TemplateContent(issue, dateFormat, loc)
    ELSE DefaultContent(issue, repo, k, dateFormat, loc)

\* The fragment the append branch adds to the existing content.
AppendedContent(currentFileContent, issue) ==
    currentFileContent \o <<NL, NL>> \o
    JoinLines(<<
        <<DASH>>,
        <<Tok("newStatus", issue.state, 0)>>,
        <<>>,
        <<Tok("heading", issue.title, 0)>>,
        <<Txt("body")>>,
        <<>> >>)

\* The "key: value" lines between a first line "---" and the next "---".
HeaderTokens(ls) ==
    LET end == FrontmatterEnd(ls)
    IN IF end = 0 THEN {}
       ELSE {ls[i][1] : i \in {j \in 2..(end - 1) : Len(ls[j]) = 1}}

\* The properties of a header: number (0 when absent) and allowDelete (""
\* when absent, else "true"/"false", with quoted telling a YAML string from
\* a YAML boolean).
PropertiesOf(hdr) ==
    LET nums == {t \in hdr : t.k = "number"}
        ads == {t \in hdr : t.k = "allowDelete"}
    IN [number |-> IF nums = {} THEN 0 ELSE (CHOOSE t \in nums : TRUE).i,
        allowDelete |-> IF ads = {} THEN "" ELSE (CHOOSE t \in ads : TRUE).s,
        quoted |-> IF ads = {} THEN FALSE ELSE (CHOOSE t \in ads : TRUE).i = 1]

\* extractProperties: the header (frontmatter) the metadata cache holds for
\* a file.
extractProperties(content) == PropertiesOf(HeaderTokens(SplitLines(content)))

\* properties.allowDelete ? String(properties.allowDelete).toLowerCase()
\*     .replace('"', "") === "true" : repoDefault
\* A YAML boolean false is falsy, so it takes the default.
AllowDelete(properties, repoDefault) ==
    IF properties.allowDelete = ""
       \/ (properties.allowDelete = "false" /\ ~properties.quoted)
    THEN repoDefault
    ELSE properties.allowDelete = "true"

----------------------------------------------------------------------------
(* The file store, as one reconciliation sees it.  A file is its folder    *)
(* (dir), its name and its content; `written` remembers the updated_at of  *)
(* the item at the file's last create or overwrite.  A store state st has  *)
(* the files, the folders, the operations done so far in the pass, and     *)
(* fuse: the number of file operations that succeed before one throws      *)
(* (-1: none throws).                                                      *)

FileAt(st, dir, name) == {f \in st.files : f.dir = dir /\ f.name = name}

\* A file operation: it throws when the fuse has run out, and nothing runs
\* after a throw.
Attempt(st, result) ==
    IF st.thrown THEN st
    ELSE IF st.fuse = 0 THEN [st EXCEPT !.thrown = TRUE]
    ELSE [result EXCEPT !.fuse = IF st.fuse > 0 THEN st.fuse - 1 ELSE st.fuse]

\* A mutant of trashFile that removes the file for good
\* (app.vault.delete).
deleteFile(st, f, r, k, by) ==
    Attempt(st, [st EXCEPT
        !.files = st.files \ {f},
        !.ops = st.ops \cup {[op |-> "delete", dir |-> f.dir, name |-> f.name,
                              r |-> r, k |-> k, by |-> by]}])

\* app.fileManager.trashFile(file)
trashFile(st, f, r, k, by) ==
    Attempt(st, [st EXCEPT
        !.files = st.files \ {f},
        !.ops = st.ops \cup {[op |-> "trash", dir |-> f.dir, name |-> f.name,
                              r |-> r, k |-> k, by |-> by]}])

\* app.vault.create(path, content)
vaultCreate(st, dir, name, content, written, r, k) ==
    Attempt(st, [st EXCEPT
        !.files = st.files \cup {[dir |-> dir, name |-> name,
                                  content |-> content, written |-> written]},
        !.ops = st.ops \cup {[op |-> "create", dir |-> dir, name |-> name,
                              r |-> r, k |-> k, by |-> "reconcile"]}])

\* app.vault.modify(file, content)
vaultModify(st, f, content, written, r, k) ==
    Attempt(st, [st EXCEPT
        !.files = (st.files \ {f}) \cup {[f EXCEPT !.content = content,
                                                    !.written = written]},
        !.ops = st.ops \cup {[op |-> "modify", dir |-> f.dir, name |-> f.name,
                              r |-> r, k |-> k, by |-> "reconcile"]}])

\* ensureFolderExists: an empty path is refused; a failed creation is tried
\* once more, so a single failure does not surface.
ensureFolderExists(st, path) ==
    IF st.thrown \/ path = <<>> THEN st
    ELSE [st EXCEPT !.folders = st.folders \cup {path}]

\* The files of a set in the order the vault lists them.
RECURSIVE FileList(_)
FileList(fs) ==
    IF fs = {} THEN <<>>
    ELSE LET f == CHOOSE x \in fs : TRUE
         IN <<f>> \o FileList(fs \ {f})

\* array.find by number.toString() === fileNumberString
FindByNumber(items, str) ==
    LET hits == {i \in 1..Len(items) : NumStr(items[i].number) = str}
    IN IF hits = {} THEN 0 ELSE CHOOSE i \in hits : \A j \in hits : i <= j

\* cutoffDate: now minus the retention window
CutoffDate(now_, days) == now_ - days * TicksPerDay

\* repo.issueNoteTemplate || "Issue - {number}" in cleanupDeletedIssues,
\* repo.pullRequestNoteTemplate || "Pull Request - {number}" in
\* cleanupDeletedPullRequests
CleanupTemplate(repo, k) ==
    IF repo.noteTemplate[k] # <<>> THEN repo.noteTemplate[k]
    ELSE IF k = "issue" THEN IssueNumberTemplate ELSE PullRequestFallbackTemplate

\* repo.issueNoteTemplate || "Issue - {number}" in createOrUpdateIssueFile,
\* repo.pullRequestNoteTemplate || "PR - {number}" in
\* createOrUpdatePullRequestFile
FileTemplate(repo, k) ==
    IF repo.noteTemplate[k] # <<>> THEN repo.noteTemplate[k]
    ELSE IF k = "issue" THEN IssueNumberTemplate ELSE PrNumberTemplate

\* The number of a file: from its header, else from its name; "" if neither.
FileNumberString(f, properties, repo, k) ==
    IF properties.number # 0 THEN NumStr(properties.number)
    ELSE extractNumberFromFilename(f.name, CleanupTemplate(repo, k))

\* shouldDelete of cleanupDeletedIssues for a file of number str
ShouldDelete(str, allItems, now_, days) ==
    LET i == FindByNumber(allItems, str)
    IN IF i = 0 THEN TRUE
       ELSE /\ allItems[i].state = "closed"
            /\ allItems[i].closed_at # NaN
            /\ allItems[i].closed_at < CutoffDate(now_, days)

\* The record of one file the cleanup looked at: its number, what its
\* header says of allowDelete, the policy default, and whether it was
\* trashed.
Seen(st, f, r, k, str, header, policy, trashed) ==
    [st EXCEPT !.seen = st.seen \cup
        {[r |-> r, k |-> k, dir |-> f.dir, name |-> f.name, number |-> str,
          header |-> header, policy |-> policy, trashed |-> trashed]}]

\* Trash the file if del says so, and record what was done.
TrashIf(st, st1, f, r, k, str, header, policy, del) ==
    Seen(IF del THEN st1 ELSE st, f, r, k, str, header, policy,
         del /\ ~st1.thrown)

\* The body of the loop of cleanupDeletedIssues / cleanupDeletedPullRequests
\* for a file with the properties of its header and the number str.
CleanupFile(st, f, properties, str, repo, r, k, allItems, cfg) ==
    TrashIf(st, trashFile(st, f, r, k, "reconcile"), f, r, k, str,
            properties.allowDelete, repo.allowDelete[k],
            /\ str # ""
            /\ ShouldDelete(str, allItems, cfg.now, cfg.days)
            /\ AllowDelete(properties, repo.allowDelete[k]))

RECURSIVE CleanupFiles(_, _, _, _, _, _, _)
CleanupFiles(st, fl, repo, r, k, allItems, cfg) ==
    IF Len(fl) = 0 \/ st.thrown THEN st
    ELSE CleanupFiles(
            CleanupFile(st, fl[1], extractProperties(fl[1].content),
                        FileNumberString(fl[1], extractProperties(fl[1].content),
                                         repo, k),
                        repo, r, k, allItems, cfg),
            Tail(fl), repo, r, k, allItems, cfg)

\* cleanupDeletedIssues / cleanupDeletedPullRequests
CleanupFolder(st, folderPath, repo, r, k, allItems, cfg) ==
    IF folderPath \notin st.folders THEN st
    ELSE CleanupFiles(st,
            FileList({f \in st.files : IsUnder(f.dir, folderPath)}),
            repo, r, k, allItems, cfg)

cleanupDeleted(st, repo, r, k, allItems, cfg) ==
    CleanupFolder(st, getFolderPath(repo, k), repo, r, k, allItems, cfg)

\* The folders createOrUpdateIssueFile makes sure of.
EnsureFolders(st, repo, k) ==
    IF repo.useCustomFolder[k] /\ repo.customFolder[k] # <<>>
    THEN ensureFolderExists(st, repo.customFolder[k])
    ELSE ensureFolderExists(
            ensureFolderExists(
                ensureFolderExists(st, repo.folder[k]),
                repo.folder[k] \o <<Owner(repo)>>),
            repo.folder[k] \o <<Owner(repo), RepoName(repo)>>)

\* The decision taken for an open item, for the record: f is the set with
\* the existing file, or empty.
Decision(st, repo, r, k, issue, what, f) ==
    [st EXCEPT !.dec = st.dec \cup
        {[r |-> r, k |-> k, number |-> issue.number, what |-> what,
          mode |-> repo.updateMode[k],
          remote |-> issue.updated_at,
          recorded |-> IF f = {} THEN NaN ELSE (CHOOSE x \in f : TRUE).written,
          headed |-> f # {} /\ UpdatedMatch((CHOOSE x \in f : TRUE).content) # <<>>]}]

\* The branches for an existing file when every mode but "append" takes the
\* update branch.
UpdateExistingOverwrite(st, f, repo, r, k, issue, content) ==
    IF repo.updateMode[k] = "append"
    THEN vaultModify(Decision(st, repo, r, k, issue, "append", {f}),
                     f, AppendedContent(f.content, issue), f.written, r, k)
    ELSE IF ~shouldUpdateContent(f.content, issue.updated_at)
    THEN Decision(st, repo, r, k, issue, "skip", {f})
    ELSE vaultModify(Decision(st, repo, r, k, issue, "update", {f}),
                     f, UpdatedContent(f.content, content),
                     issue.updated_at, r, k)

\* The branches of createOrUpdateIssueFile for an existing file f.
UpdateExisting(st, f, repo, r, k, issue, content) ==
    IF repo.updateMode[k] = "update"
    THEN IF ~shouldUpdateContent(f.content, issue.updated_at)
         THEN Decision(st, repo, r, k, issue, "skip", {f})
         ELSE vaultModify(Decision(st, repo, r, k, issue, "update", {f}),
                          f, UpdatedContent(f.content, content),
                          issue.updated_at, r, k)
    ELSE IF repo.updateMode[k] = "append"
    THEN vaultModify(Decision(st, repo, r, k, issue, "append", {f}),
                     f, AppendedContent(f.content, issue), f.written, r, k)
    ELSE Decision(st, repo, r, k, issue, "none", {f})

\* createOrUpdateIssueFile once the folders are there: found is the set
\* with the file at the path, or empty.
CreateOrUpdateAt(st, found, dir, name, repo, r, k, issue, content) ==
    IF st.thrown THEN st
    ELSE IF found = {}
    THEN vaultCreate(Decision(st, repo, r, k, issue, "create", found),
                     dir, name, content, issue.updated_at, r, k)
    ELSE UpdateExisting(st, CHOOSE x \in found : TRUE, repo, r, k, issue, content)

CreateOrUpdateIn(st, dir, name, repo, r, k, issue, content) ==
    CreateOrUpdateAt(st, FileAt(st, dir, name), dir, name, repo, r, k, issue,
                     content)

\* createOrUpdateIssueFile / createOrUpdatePullRequestFile
createOrUpdateFile(st0, repo, r, k, issue, cfg) ==
    CreateOrUpdateIn(EnsureFolders(st0, repo, k), getFolderPath(repo, k),
                     FileName(FileTemplate(repo, k), issue), repo, r, k, issue,
                     createContent(issue, repo, k, cfg.dateFormat, cfg.locale,
                                   cfg.templateFiles))

RECURSIVE CreateOrUpdateAll(_, _, _, _, _, _)
CreateOrUpdateAll(st, repo, r, k, openItems, cfg) ==
    IF Len(openItems) = 0 \/ st.thrown THEN st
    ELSE CreateOrUpdateAll(createOrUpdateFile(st, repo, r, k, openItems[1], cfg),
                           repo, r, k, Tail(openItems), cfg)

\* createIssueFiles / createPullRequestFiles
CreateFilesFor(st, effectiveRepo, r, k, openItems, allItems, cfg) ==
    IF ~ValidRepository(effectiveRepo) THEN st
    ELSE CreateOrUpdateAll(
            cleanupDeleted(st, effectiveRepo, r, k, allItems, cfg),
            effectiveRepo, r, k, openItems, cfg)

createFiles(st, repo, r, k, openItems, allItems, cfg) ==
    CreateFilesFor(st, getEffectiveRepoSettings(repo, cfg.globalDefaults),
                   r, k, openItems, allItems, cfg)

----------------------------------------------------------------------------
(* Filters (file-manager.ts) *)

\* The elements of a list.
Range(list) == {list[i] : i \in 1..Len(list)}

\* A mutant of applyLabelFilter that includes whatever the mode.
applyLabelFilterInclude(items, filterMode, labelFilters) ==
    SelectSeq(items, LAMBDA item :
        \E i \in 1..Len(labelFilters) : labelFilters[i] \in Range(item.labels))

applyLabelFilter(items, filterMode, labelFilters) ==
    SelectSeq(items, LAMBDA item :
        LET hasMatchingLabel ==
                \E i \in 1..Len(labelFilters) : labelFilters[i] \in Range(item.labels)
        IN IF filterMode = "include" THEN hasMatchingLabel ELSE ~hasMatchingLabel)

\* A mutant of applyAssigneeFilter in which assigned-to-me passes the items
\* assigned to anyone.
applyAssigneeFilterAnyone(items, filterMode, assigneeFilters, currentUser) ==
    SelectSeq(items, LAMBDA item :
        CASE filterMode = "assigned-to-me" -> Len(item.assignees) > 0
          [] filterMode = "assigned-to-specific" ->
                \E i \in 1..Len(assigneeFilters) :
                    assigneeFilters[i] \in Range(item.assignees)
          [] filterMode = "unassigned" -> Len(item.assignees) = 0
          [] filterMode = "any-assigned" -> Len(item.assignees) > 0
          [] OTHER -> TRUE)

applyAssigneeFilter(items, filterMode, assigneeFilters, currentUser) ==
    SelectSeq(items, LAMBDA item :
        CASE filterMode = "assigned-to-me" -> currentUser \in Range(item.assignees)
          [] filterMode = "assigned-to-specific" ->
                \E i \in 1..Len(assigneeFilters) :
                    assigneeFilters[i] \in Range(item.assignees)
          [] filterMode = "unassigned" -> Len(item.assignees) = 0
          [] filterMode = "any-assigned" -> Len(item.assignees) > 0
          [] OTHER -> TRUE)

\* filterIssues / filterPullRequests
AssigneeFiltered(repo, k, items, currentUser) ==
    IF repo.enableAssigneeFilter[k]
    THEN applyAssigneeFilter(items, repo.assigneeFilterMode[k],
                             repo.assigneeFilters[k], currentUser)
    ELSE items

filterItems(repo, k, items, currentUser) ==
    AssigneeFiltered(repo, k,
        IF repo.enableLabelFilter[k] /\ Len(repo.labelFilters[k]) > 0
        THEN applyLabelFilter(items, repo.labelFilterMode[k], repo.labelFilters[k])
        ELSE items,
        currentUser)

----------------------------------------------------------------------------
(* Empty-folder cleanup (file-manager.ts) *)

\* folder.children: the files and the folders directly in a folder
Children(st, folder) ==
    {f \in st.files : f.dir = folder}
    \cup {d \in st.folders : Len(d) = Len(folder) + 1
                               /\ SubSeq(d, 1, Len(folder)) = folder}

\* trashFile on a folder
trashFolder(st, folder, r, k) ==
    Attempt(st, [st EXCEPT
        !.folders = st.folders \ {folder},
        !.ops = st.ops \cup {[op |-> "trashFolder", dir |-> folder,
                              name |-> <<>>, r |-> r, k |-> k, by |-> "folders"]}])

\* The loop over the files of the folder of a kind that is not tracked:
\* for (const file of files) over the list a trashed file is spliced out
\* of, so the file behind a trashed one moves into its place and the loop
\* passes it by.
RECURSIVE TrashUntracked(_, _, _, _)
TrashUntracked(st, fl, r, k) ==
    IF Len(fl) = 0 \/ st.thrown THEN st
    ELSE IF AllowDelete(extractProperties(fl[1].content), FALSE)
    THEN TrashUntracked(trashFile(st, fl[1], r, k, "folders"),
                        IF Len(fl) >= 2 THEN Tail(Tail(fl)) ELSE <<>>, r, k)
    ELSE TrashUntracked(st, Tail(fl), r, k)

\* A mutant of TrashIfEmpty that does not look at the children.
TrashIfThere(st, folder, r, k) ==
    IF ~st.thrown /\ folder \in st.folders
    THEN trashFolder(st, folder, r, k)
    ELSE st

\* Trash the folder if it is there and has no children.
TrashIfEmpty(st, folder, r, k) ==
    IF ~st.thrown /\ folder \in st.folders /\ Children(st, folder) = {}
    THEN trashFolder(st, folder, r, k)
    ELSE st

UntrackedTrashed(st, folder, repo, r, k) ==
    IF ~repo.track[k]
    THEN TrashUntracked(st, FileList({f \in st.files : f.dir = folder}), r, k)
    ELSE st

CleanupFolderAt(st, folder, custom, repo, r, k) ==
    IF st.thrown \/ folder \notin st.folders THEN st
    ELSE IF custom THEN UntrackedTrashed(st, folder, repo, r, k)
    ELSE TrashIfEmpty(
            TrashIfEmpty(UntrackedTrashed(st, folder, repo, r, k), folder, r, k),
            repo.folder[k] \o <<Owner(repo)>>, r, k)

\* The folder the cleanup asks the vault for.
Looked(st, folder, r, k) ==
    IF st.thrown THEN st
    ELSE [st EXCEPT !.looked = @ \cup {[r |-> r, k |-> k, dir |-> folder]}]

\* cleanupEmptyIssueFolder / cleanupEmptyPullRequestFolder
cleanupEmptyFolder(st, repo, r, k) ==
    CleanupFolderAt(Looked(st, getFolderPath(repo, k), r, k), getFolderPath(repo, k),
                    repo.useCustomFolder[k] /\ repo.customFolder[k] # <<>>,
                    repo, r, k)

RECURSIVE CleanupRepos(_, _, _)
CleanupRepos(st, repos, r) ==
    IF r > Len(repos) \/ st.thrown THEN st
    ELSE IF ~ValidRepository(repos[r]) THEN CleanupRepos(st, repos, r + 1)
    ELSE CleanupRepos(
            cleanupEmptyFolder(cleanupEmptyFolder(st, repos[r], r, "issue"),
                               repos[r], r, "pr"),
            repos, r + 1)

\* cleanupEmptyFolders: an error is caught here and ends the cleanup.
cleanupEmptyFolders(st, repos) ==
    [CleanupRepos(st, repos, 1) EXCEPT !.thrown = FALSE]

----------------------------------------------------------------------------
(* The plugin and its surroundings: settings, the remote source, the      *)
(* vault, the sync passes in progress.                                     *)

\* Bound: the length of the names that are sanitized.
MaxNameLen == 3
\* Bound: the changes the surroundings make in a run.
MaxEnv == 2
\* Bound: the sync passes started in a run.
MaxPasses == 2
\* Bound: the failures (a failed listing, a throwing file operation).
MaxFaults == 1
\* Bound: the file operations that may succeed before one throws.
MaxFuse == 1

\* settings.cleanupClosedIssuesDays
CleanupClosedIssuesDays == 1

KindFn(i, p) == [k \in Kinds |-> IF k = "issue" THEN i ELSE p]

\* The template file a repository may name, and the files that can be read.
TemplatePath == "tpl.md"

\* DEFAULT_SETTINGS.globalDefaults with the chosen update mode, delete
\* permission and filename templates
GlobalDefaults(mode, allowDelete, titled) ==
    [updateMode |-> KindFn(mode, mode),
     allowDelete |-> KindFn(allowDelete, allowDelete),
     folder |-> KindFn(<<"GitHub">>, <<"GitHub Pull Requests">>),
     noteTemplate |-> IF titled THEN KindFn(TitleTemplate, TitleTemplate)
                      ELSE KindFn(IssueNumberTemplate, PrNumberTemplate),
     contentTemplate |-> KindFn("", ""),
     includeComments |-> KindFn(TRUE, TRUE)]

\* DEFAULT_REPOSITORY_TRACKING for a repository, with the tracking switches
\* and the custom content template switch
RepositoryTracking(repository, trackIssues, trackPullRequest, customTemplate) ==
    [repository |-> repository,
     ignoreGlobalSettings |-> FALSE,
     track |-> KindFn(trackIssues, trackPullRequest),
     updateMode |-> KindFn("none", "none"),
     allowDelete |-> KindFn(TRUE, TRUE),
     folder |-> KindFn(<<"GitHub">>, <<"GitHub Pull Requests">>),
     useCustomFolder |-> KindFn(FALSE, FALSE),
     customFolder |-> KindFn(<<>>, <<>>),
     noteTemplate |-> KindFn(IssueNumberTemplate, PrNumberTemplate),
     contentTemplate |-> KindFn(IF customTemplate THEN TemplatePath ELSE "",
                                IF customTemplate THEN TemplatePath ELSE ""),
     useCustomContentTemplate |-> KindFn(customTemplate, customTemplate),
     enableLabelFilter |-> KindFn(FALSE, FALSE),
     labelFilterMode |-> KindFn("include", "include"),
     labelFilters |-> KindFn(<<>>, <<>>),
     enableAssigneeFilter |-> KindFn(FALSE, FALSE),
     assigneeFilterMode |-> KindFn("assigned-to-me", "assigned-to-me"),
     assigneeFilters |-> KindFn(<<>>, <<>>),
     includeComments |-> KindFn(TRUE, TRUE)]

RepoA == <<"o", "a">>
RepoB == <<"o", "b">>
\* A repository identifier without the "/".
RepoBad == <<"bad">>

Settings(mode, dateFormat, customTemplate, titled, allowDelete) ==
    [repositories |-> << RepositoryTracking(RepoA, TRUE, TRUE, customTemplate),
                         RepositoryTracking(RepoBad, TRUE, TRUE, FALSE),
                         RepositoryTracking(RepoB, TRUE, FALSE, customTemplate) >>,
     globalDefaults |-> GlobalDefaults(mode, allowDelete, titled),
     dateFormat |-> dateFormat,
     cleanupClosedIssuesDays |-> CleanupClosedIssuesDays]

UpdateModes == {"none", "update", "append"}
Titles == {"t1", "t2"}

\* An item of the remote source.
Item(repository, kind, number, updated_at) ==
    [repository |-> repository, kind |-> kind, number |-> number,
     state |-> "open", title |-> "t1", updated_at |-> updated_at,
     closed_at |-> NaN, labels |-> <<>>, assignees |-> <<>>]

\* The remote source at the start: an issue and a pull request of one
\* repository, updated in the course of a day, and an issue of the other,
\* updated at midnight.
InitialRemote ==
    { Item(RepoA, "issue", 1, 1), Item(RepoA, "pr", 2, 1),
      Item(RepoB, "issue", 1, 0) }

\* The clock at the start.
InitialTime == 2

RECURSIVE ByNumber(_)
ByNumber(items) ==
    IF items = {} THEN <<>>
    ELSE LET i == CHOOSE x \in items : \A y \in items : x.number <= y.number
         IN <<i>> \o ByNumber(items \ {i})

\* fetchRepositoryIssues / fetchRepositoryPullRequests with includeClosed:
\* nothing without a client or when the listing fails, else the open items
\* and the items closed after the cutoff.
fetchRepositoryItems(client, listed, items, repo, k, now_, days) ==
    IF ~client \/ ~listed THEN <<>>
    ELSE ByNumber({i \in items :
            /\ i.repository = repo.repository /\ i.kind = k
            /\ \/ i.state = "open"
               \/ i.closed_at # NaN /\ i.closed_at > CutoffDate(now_, days)})

\* The user's login, for the assignee filter.
CurrentUser == "me"

\* The retention window in ticks.
RetentionTicks == CleanupClosedIssuesDays * TicksPerDay

\* The settings a run starts with: every update mode with every rendering
\* of dates under the built-in layout, and the template file, the titled
\* file names and the forbidding delete policy each with some of them.
ConfigPool ==
    {<<mode, dateFormat, FALSE, FALSE, TRUE>> :
        mode \in UpdateModes, dateFormat \in DateFormats}
    \cup {<<mode, "yyyy-MM-dd HH:mm:ss", TRUE, FALSE, TRUE>> : mode \in {"update", "none"}}
    \cup {<<"update", "yyyy-MM-dd HH:mm:ss", FALSE, TRUE, TRUE>>,
          <<"none", "yyyy-MM-dd HH:mm:ss", FALSE, FALSE, FALSE>>}

\* What a run may spend: changes of the surroundings and no failure, or
\* failures and fewer changes.
Budgets ==
    {[env |-> MaxEnv, passes |-> MaxPasses, faults |-> 0],
     [env |-> 0, passes |-> MaxPasses, faults |-> MaxFaults]}

----------------------------------------------------------------------------
(* The record of a pass: what it did, for the properties below. *)

NoLog ==
    [started |-> FALSE, finished |-> FALSE, single |-> 0, stable |-> FALSE,
     ops |-> {}, dec |-> {}, seen |-> {},
     fetchFailed |-> {}, done |-> {}, threw |-> {}, cleanupRan |-> FALSE,
     traces |-> {}, looked |-> {}]

NewLog(single) ==
    [NoLog EXCEPT !.started = TRUE, !.single = single, !.stable = stable]

Cfg ==
    [now |-> now, days |-> settings.cleanupClosedIssuesDays,
     dateFormat |-> settings.dateFormat, locale |-> locale,
     templateFiles |-> {TemplatePath},
     globalDefaults |-> settings.globalDefaults]

Store(fuse) ==
    [files |-> files, folders |-> folders, ops |-> log.ops, dec |-> log.dec,
     seen |-> log.seen, looked |-> log.looked, fuse |-> fuse, thrown |-> FALSE]

\* The fuses a step may run with: none, or one that throws while a failure
\* is left in the budget.
Fuses == {-1} \cup (IF budget.faults > 0 THEN 0..MaxFuse ELSE {})
Listings == {TRUE} \cup (IF budget.faults > 0 THEN {FALSE} ELSE {})

\* The plugin after onload() with a token, before the first sync, in an
\* empty vault.
SyncInit ==
    /\ locale \in (IF settings.dateFormat = "" THEN Locales ELSE {"en-US"})
    /\ octokit = TRUE
    /\ now = InitialTime
    /\ remote = InitialRemote
    /\ files = {}
    /\ folders = {}
    /\ isSyncing = FALSE
    /\ passes = {}
    /\ notice = ""
    /\ log = NoLog
    /\ stable = FALSE

\* The persist variables while the plugin runs.
PersistIdle == oldDoc = <<>> /\ newDoc = <<>> /\ merged = <<>> /\ ppc = "off"

\* No function is applied on its own.
CallIdle == call = [fn |-> "none"] /\ returned = [done |-> FALSE]

\* The plugin as it is loaded by the host, background sync off.
Loaded ==
    [loaded |-> TRUE, enableBackgroundSync |-> FALSE, backgroundSyncInterval |-> 0,
     backgroundSyncIntervalId |-> 0, intervals |-> {}, lastId |-> 0, saving |-> 0]

\* The life cycle of the plugin and its timer are left alone.
TimerIdle == background = Loaded

Init ==
    /\ settings \in {Settings(c[1], c[2], c[3], c[4], c[5]) : c \in ConfigPool}
    /\ SyncInit
    /\ budget \in Budgets
    /\ PersistIdle
    /\ CallIdle
    /\ TimerIdle

----------------------------------------------------------------------------
(* Sync requests (main.ts) *)

\* A mutant of AlreadySyncing that never finds a pass in progress.
NeverSyncing == FALSE

\* if (this.isSyncing) { warning("Already syncing..."); return; }
AlreadySyncing == isSyncing

\* The ways sync() is called: the ribbon icon, the command, the startup
\* timeout and the background interval; all but the command ask the client
\* whether it is ready.
Triggers == {"ribbon", "command", "startup", "timer"}

Reject ==
    /\ notice' = "Already syncing..."
    /\ UNCHANGED <<settings, locale, octokit, now, remote, files, folders,
                   isSyncing, passes, log, stable, budget>>

\* sync()
Sync(trigger) ==
    /\ trigger = "command" \/ octokit
    /\ IF AlreadySyncing THEN Reject
       ELSE /\ budget.passes > 0
            /\ isSyncing' = TRUE
            /\ passes' = passes \cup {[single |-> 0, phase |-> "issue", idx |-> 1]}
            /\ log' = NewLog(0)
            /\ notice' = "Syncing"
            /\ budget' = [budget EXCEPT !.passes = @ - 1]
            /\ UNCHANGED <<settings, locale, octokit, now, remote, files,
                           folders, stable>>
    /\ UNCHANGED <<pvars, cvars, tvars>>

\* syncSingleRepository(repositoryName), called from the settings tab for a
\* repository of the list.  An identifier without owner or name ends the
\* call at once.
SyncSingleRepository(r) ==
    /\ r \in 1..Len(settings.repositories)
    /\ IF AlreadySyncing THEN Reject
       ELSE /\ budget.passes > 0
            /\ IF ValidRepository(settings.repositories[r])
               THEN /\ isSyncing' = TRUE
                    /\ passes' = passes \cup
                            {[single |-> r, phase |-> "issue", idx |-> r]}
                    /\ log' = NewLog(r)
                    /\ notice' = "Syncing"
                    /\ budget' = [budget EXCEPT !.passes = @ - 1]
               ELSE /\ notice' = "Invalid repository format"
                    /\ UNCHANGED <<isSyncing, passes, log, budget>>
            /\ UNCHANGED <<settings, locale, octokit, now, remote, files,
                           folders, stable>>
    /\ UNCHANGED <<pvars, cvars, tvars>>

\* A mutant of NextPosition in which an error ends the pass.
NextPositionAbort(p, thrown) ==
    IF thrown THEN [p EXCEPT !.phase = "end"]
    ELSE IF p.single = 0 /\ p.idx < Len(settings.repositories)
    THEN [p EXCEPT !.idx = p.idx + 1]
    ELSE IF p.phase = "issue" THEN [p EXCEPT !.phase = "pr", !.idx = IF p.single = 0 THEN 1 ELSE p.single]
    ELSE [p EXCEPT !.phase = "cleanup"]

\* Where a pass goes after the step for one repository and kind: sync()
\* catches the error of a repository and goes on with the next; in
\* syncSingleRepository() an error ends the pass.
NextPosition(p, thrown) ==
    IF p.single # 0 /\ thrown THEN [p EXCEPT !.phase = "end"]
    ELSE IF p.single = 0 /\ p.idx < Len(settings.repositories)
    THEN [p EXCEPT !.idx = p.idx + 1]
    ELSE IF p.phase = "issue" THEN [p EXCEPT !.phase = "pr", !.idx = IF p.single = 0 THEN 1 ELSE p.single]
    ELSE [p EXCEPT !.phase = "cleanup"]

\* A mutant of EndPass without the finally block after an error.
EndPassNoFinally(p, newLog) ==
    /\ passes' = passes \ {p}
    /\ isSyncing' = (newLog.threw # {})
    /\ log' = [newLog EXCEPT !.finished = TRUE]
    /\ notice' = "Synced"
    /\ stable' = /\ newLog.fetchFailed = {} /\ newLog.threw = {} /\ octokit
                 /\ (newLog.single = 0 \/ stable)

\* finally { this.isSyncing = false; }
EndPass(p, newLog) ==
    /\ passes' = passes \ {p}
    /\ isSyncing' = FALSE
    /\ log' = [newLog EXCEPT !.finished = TRUE]
    /\ notice' = "Synced"
    /\ stable' = /\ newLog.fetchFailed = {} /\ newLog.threw = {} /\ octokit
                 /\ (newLog.single = 0 \/ stable)

Continue(p, q, newLog) ==
    IF q.phase = "end" THEN EndPass(p, newLog)
    ELSE /\ passes' = (passes \ {p}) \cup {q}
         /\ log' = newLog
         /\ notice' = "Processing"
         /\ UNCHANGED <<isSyncing, stable>>

\* What the step for repository r and kind k adds to the record; the step
\* begins with debug("Fetching issues for ...").
ReconcileLog(st, r, k, failed) ==
    [log EXCEPT
        !.ops = st.ops, !.dec = st.dec, !.seen = st.seen,
        !.traces = @ \cup {<<r, k>>},
        !.fetchFailed = IF failed THEN @ \cup {<<r, k>>} ELSE @,
        !.done = IF st.thrown THEN @ ELSE @ \cup {<<r, k>>},
        !.threw = IF st.thrown THEN @ \cup {<<r, k>>} ELSE @]

\* The open items of the listing are filtered and the folder reconciled.
ReconcileItems(repo, r, k, all, fuse) ==
    createFiles(Store(fuse), repo, r, k,
                filterItems(repo, k, SelectSeq(all, LAMBDA i : i.state = "open"),
                            CurrentUser),
                all, Cfg)

\* The vault and the pass after the step.
Reconciled(p, st, r, k, failed, fault) ==
    /\ files' = st.files
    /\ folders' = st.folders
    /\ budget' = [budget EXCEPT !.faults = IF fault THEN @ - 1 ELSE @]
    /\ Continue(p, NextPosition(p, st.thrown), ReconcileLog(st, r, k, failed))

\* One turn of the loops of fetchIssues / fetchPullRequests (or the issue or
\* pull request part of syncSingleRepository): list the items of repository
\* p.idx, filter them, reconcile the folder.
Reconcile(p) ==
    /\ p \in passes
    /\ p.phase \in Kinds
    /\ IF \/ ~settings.repositories[p.idx].track[p.phase]
          \/ ~ValidRepository(settings.repositories[p.idx])
       THEN /\ Continue(p, NextPosition(p, FALSE), log)
            /\ UNCHANGED <<files, folders, budget>>
       ELSE \E listed \in Listings, fuse \in Fuses :
               Reconciled(p,
                   ReconcileItems(settings.repositories[p.idx], p.idx, p.phase,
                       fetchRepositoryItems(octokit, listed, remote,
                           settings.repositories[p.idx], p.phase, now,
                           settings.cleanupClosedIssuesDays),
                       fuse),
                   p.idx, p.phase, ~(listed /\ octokit), ~listed \/ fuse # -1)
    /\ UNCHANGED <<settings, locale, octokit, now, remote>>
    /\ UNCHANGED <<pvars, cvars, tvars>>

\* The vault and the pass after the folder cleanup.
CleanedUp(p, st, fault) ==
    /\ files' = st.files
    /\ folders' = st.folders
    /\ budget' = [budget EXCEPT !.faults = IF fault THEN @ - 1 ELSE @]
    /\ EndPass(p, [log EXCEPT !.ops = st.ops, !.looked = st.looked,
                             !.cleanupRan = TRUE])

\* cleanupEmptyFolders() at the end of a pass, and the end of the pass.
CleanupEmptyFolders(p) ==
    /\ p \in passes
    /\ p.phase = "cleanup"
    /\ \E fuse \in Fuses :
          CleanedUp(p, cleanupEmptyFolders(Store(fuse), settings.repositories),
                    fuse # -1)
    /\ UNCHANGED <<settings, locale, octokit, now, remote>>
    /\ UNCHANGED <<pvars, cvars, tvars>>

----------------------------------------------------------------------------
(* The surroundings: the remote source, the clock, the user.  They move    *)
(* between passes.                                                         *)

Idle == passes = {} /\ budget.env > 0

Moved ==
    /\ log' = NoLog
    /\ stable' = FALSE
    /\ budget' = [budget EXCEPT !.env = @ - 1]
    /\ UNCHANGED <<isSyncing, passes, notice>>
    /\ UNCHANGED <<pvars, cvars, tvars>>

\* The items that change in a run, and their documents.
Movable(i) == i.repository = RepoA /\ i.kind = "issue"
MovableFile(f) ==
    f.dir = getFolderPath(getEffectiveRepoSettings(settings.repositories[1],
                                                   settings.globalDefaults), "issue")

\* Someone edits an item on the remote source.
RemoteEdit(i, title) ==
    /\ Idle
    /\ i \in remote /\ Movable(i)
    /\ remote' = (remote \ {i}) \cup {[i EXCEPT !.title = title, !.updated_at = now]}
    /\ remote' # remote
    /\ Moved
    /\ UNCHANGED <<settings, locale, octokit, now, files, folders>>

\* Someone closes an item on the remote source.
RemoteClose(i) ==
    /\ Idle
    /\ i \in remote /\ Movable(i)
    /\ i.state = "open"
    /\ remote' = (remote \ {i}) \cup
            {[i EXCEPT !.state = "closed", !.closed_at = now, !.updated_at = now]}
    /\ Moved
    /\ UNCHANGED <<settings, locale, octokit, now, files, folders>>

\* Someone deletes an item on the remote source, or moves it elsewhere.
RemoteDelete(i) ==
    /\ Idle
    /\ i \in remote /\ Movable(i)
    /\ remote' = remote \ {i}
    /\ Moved
    /\ UNCHANGED <<settings, locale, octokit, now, files, folders>>

\* Time passes: a tick, or more than the retention window.
AdvanceTime(d) ==
    /\ Idle
    /\ now + d <= MaxTime
    /\ now' = now + d
    /\ Moved
    /\ UNCHANGED <<settings, locale, octokit, remote, files, folders>>

\* The content with its allowDelete header line set to value (quoted: as a
\* YAML string, else as a YAML boolean), or without the line (value "").
SetAllowDelete(content, value, quoted) ==
    LET ls == SplitLines(content)
        isLine(l) == Len(l) = 1 /\ l[1].k = "allowDelete"
    IN IF value = "" THEN JoinLines(SelectSeq(ls, LAMBDA l : ~isLine(l)))
       ELSE JoinLines([j \in 1..Len(ls) |->
                IF isLine(ls[j])
                THEN <<Tok("allowDelete", value, IF quoted THEN 1 ELSE 0)>>
                ELSE ls[j]])

\* The user edits the allowDelete line of a document's header.
UserSetAllowDelete(f, value, quoted) ==
    /\ Idle
    /\ f \in files /\ MovableFile(f)
    /\ files' = (files \ {f}) \cup
            {[f EXCEPT !.content = SetAllowDelete(f.content, value, quoted)]}
    /\ files' # files
    /\ Moved
    /\ UNCHANGED <<settings, locale, octokit, now, remote, folders>>

\* The user changes the filename templates in the settings.
ChangeNoteTemplate(titled) ==
    /\ Idle
    /\ settings' = [settings EXCEPT !.globalDefaults.noteTemplate =
            IF titled THEN KindFn(TitleTemplate, TitleTemplate)
            ELSE KindFn(IssueNumberTemplate, PrNumberTemplate)]
    /\ settings' # settings
    /\ Moved
    /\ UNCHANGED <<locale, octokit, now, remote, files, folders>>

\* onunload() and onload(): the client is disposed of and built again, with
\* a token or without one.
Restart(hasToken) ==
    /\ passes = {} /\ budget.env > 0
    /\ hasToken # octokit
    /\ octokit' = hasToken
    /\ log' = NoLog
    /\ stable' = FALSE
    /\ budget' = [budget EXCEPT !.env = @ - 1]
    /\ isSyncing' = FALSE
    /\ notice' = ""
    /\ UNCHANGED <<settings, locale, now, remote, files, folders, passes>>
    /\ UNCHANGED <<pvars, cvars, tvars>>

AllowDeleteEdits == {<<"false", FALSE>>, <<"false", TRUE>>, <<"true", FALSE>>, <<"", FALSE>>}

Next ==
    \/ \E trigger \in Triggers : Sync(trigger)
    \/ \E r \in 1..Len(settings.repositories) : SyncSingleRepository(r)
    \/ \E p \in passes : Reconcile(p)
    \/ \E p \in passes : CleanupEmptyFolders(p)
    \/ \E i \in remote, title \in Titles : RemoteEdit(i, title)
    \/ \E i \in remote : RemoteClose(i)
    \/ \E i \in remote : RemoteDelete(i)
    \/ \E d \in {1, RetentionTicks + 1} : AdvanceTime(d)
    \/ \E f \in files, e \in AllowDeleteEdits : UserSetAllowDelete(f, e[1], e[2])
    \/ \E titled \in BOOLEAN : ChangeNoteTemplate(titled)
    \/ \E hasToken \in BOOLEAN : Restart(hasToken)

Spec == Init /\ [][Next]_vars

----------------------------------------------------------------------------
(* The passes on their own, with failures: no change of the surroundings,  *)
(* any interleaving of requests and steps.                                 *)

InitPasses ==
    /\ settings \in {Settings(mode, "yyyy-MM-dd HH:mm:ss", FALSE, FALSE, TRUE) :
                        mode \in UpdateModes}
    /\ SyncInit
    /\ budget = [env |-> 0, passes |-> MaxPasses, faults |-> MaxFaults]
    /\ PersistIdle
    /\ CallIdle
    /\ TimerIdle

NextPasses ==
    \/ \E trigger \in Triggers : Sync(trigger)
    \/ \E r \in 1..Len(settings.repositories) : SyncSingleRepository(r)
    \/ \E p \in passes : Reconcile(p)
    \/ \E p \in passes : CleanupEmptyFolders(p)

SpecPasses == InitPasses /\ [][NextPasses]_vars

\* A pass takes its next step, seen from the position of the pass alone:
\* the steps Reconcile and CleanupEmptyFolders of pass p, and no other step,
\* change the passes in this way, and one of the two is enabled whenever p
\* is in progress.
PassStep(p) ==
    /\ p \in passes
    /\ \E thrown \in BOOLEAN :
          passes' = IF p.phase = "cleanup" \/ NextPosition(p, thrown).phase = "end"
                    THEN passes \ {p}
                    ELSE (passes \ {p}) \cup {NextPosition(p, thrown)}

\* The passes when every step that is begun comes to its end: the requests
\* to the remote source and the operations of the vault resolve or reject,
\* and the function goes on after each await.
SpecPassesFair ==
    /\ InitPasses /\ [][NextPasses]_vars
    /\ WF_passes(\E p \in passes : PassStep(p))

----------------------------------------------------------------------------
(* The persist codec on its own: an existing document, a fresh rendering,  *)
(* and the overwrite of update mode.                                       *)

\* Bound: the number of body lines of the existing document.
MaxBodyLines == 3

N1 == "notes"
N2 == "todo"

\* The lines a user's document is built from.
BodyLinePool ==
    { <<Txt("a")>>,
      <<>>,
      <<OpenM(N1, 0), Txt("x"), CloseM(0)>>,
      <<OpenM(N1, 0), Txt("y"), CloseM(0)>>,
      <<OpenM(N2, 1), Txt("z"), CloseM(1)>>,
      <<OpenM(N1, 0)>>,
      <<CloseM(0)>>,
      <<Txt("a"), OpenM(N2, 0), Txt("y"), CloseM(0)>>,
      <<SP, Txt("b")>> }

BodiesUpTo(n) == UNION {[1..k -> BodyLinePool] : k \in 0..n}

HeaderOf(title) == <<(<<DASH>>), (<<HeaderLine("title", title)>>), (<<DASH>>)>>

OldDocs ==
    {JoinLines(h \o b) : h \in {<<>>, HeaderOf("t1")}, b \in BodiesUpTo(MaxBodyLines)}

\* Fresh renderings: with and without a header, with the old title and a
\* new one, with text the old document had and without, with and without a
\* placeholder block.
NewBodies ==
    { <<(<<Txt("c")>>)>>,
      <<(<<Txt("a")>>), (<<Txt("c")>>)>>,
      <<(<<Txt("c")>>), (<<OpenM(N1, 0), CloseM(0)>>)>>,
      <<(<<Txt("b")>>), (<<>>), (<<Txt("c")>>)>> }

NewDocs ==
    {JoinLines(h \o b) : h \in {<<>>, HeaderOf("t1"), HeaderOf("t2")}, b \in NewBodies}

InitPersist ==
    /\ oldDoc \in OldDocs
    /\ newDoc \in NewDocs
    /\ merged = <<>>
    /\ ppc = "ready"
    /\ settings = Settings("update", "", FALSE, FALSE, TRUE)
    /\ locale = "en-US"
    /\ SyncInit
    /\ budget = [env |-> 0, passes |-> 0, faults |-> 0]
    /\ CallIdle
    /\ TimerIdle

\* vault.modify(file, updatedContent) of the update branch
Overwrite ==
    /\ ppc = "ready"
    /\ merged' = UpdatedContent(oldDoc, newDoc)
    /\ ppc' = "done"
    /\ UNCHANGED <<oldDoc, newDoc>>
    /\ UNCHANGED <<svars, cvars, tvars>>

NextPersist == Overwrite

SpecPersist == InitPersist /\ [][NextPersist]_vars

----------------------------------------------------------------------------
(* sanitizeFilename (util/templateUtils.ts).  A name is the sequence of    *)
(* its characters.                                                         *)

\* The characters /[<>:"|?*\\\/]/ names.
InvalidCharacters == {"<", ">", ":", "\"", "|", "?", "*", "\\", "/"}

\* What \s matches, among the characters of the names.
Whitespace == {" ", "\n", "\r", "\t"}

\* .substring(0, 255)
FilenameLimit == 255

\* .replace(/\s+/g, " ")
RECURSIVE CollapseWhitespace(_)
CollapseWhitespace(name) ==
    IF name = <<>> THEN <<>>
    ELSE IF name[1] \in Whitespace
    THEN IF Len(name) >= 2 /\ name[2] \in Whitespace
         THEN CollapseWhitespace(Tail(name))
         ELSE <<" ">> \o CollapseWhitespace(Tail(name))
    ELSE <<name[1]>> \o CollapseWhitespace(Tail(name))

\* The name without the characters of a set at its start and at its end:
\* .trim() for the whitespace, .replace(/^\.+|\.+$/g, "") for the dots.
RECURSIVE Strip(_, _)
Strip(name, set) ==
    IF name = <<>> THEN <<>>
    ELSE IF name[1] \in set THEN Strip(Tail(name), set)
    ELSE IF name[Len(name)] \in set THEN Strip(SubSeq(name, 1, Len(name) - 1), set)
    ELSE name

sanitizeFilename(filename) ==
    LET replaced == [i \in 1..Len(filename) |->
                        IF filename[i] \in InvalidCharacters THEN "-"
                        ELSE IF filename[i] \in {"\n", "\t"} THEN " "
                        ELSE filename[i]]
        stripped == Strip(Strip(CollapseWhitespace(
                        SelectSeq(replaced, LAMBDA c : c # "\r")), Whitespace), {"."})
    IN SubSeq(stripped, 1, Min(Len(stripped), FilenameLimit))

----------------------------------------------------------------------------
(* Template processing (util/templateUtils.ts).  A template is the         *)
(* sequence of its braces, colons, names and stretches of other text; the  *)
(* rendered text is a sequence of strings.                                 *)

\* The value of an optional field that is not there.
Undefined == "(undefined)"

\* The variables of scalar substitution that the model knows.
ScalarNames == {"title", "number", "status", "author", "assignee", "body",
                "url", "milestone", "commentsCount", "closed"}

\* value || fallback
OrElse(value, fallback) == IF value \in {Undefined, ""} THEN fallback ELSE value

\* The replacements of processTemplate: what is put for {name}.  Dates are
\* held as format() renders them.
Replacements(data) ==
    [name \in ScalarNames |->
        CASE name = "title" -> OrElse(data.title, "Untitled")
          [] name = "number" -> NumStr(data.number)
          [] name = "status" -> OrElse(data.status, "unknown")
          [] name = "author" -> OrElse(data.author, "unknown")
          [] name = "assignee" -> OrElse(data.assignee, "unassigned")
          [] name = "body" -> OrElse(data.body, "")
          [] name = "url" -> OrElse(data.url, "")
          [] name = "milestone" -> OrElse(data.milestone, "")
          [] name = "commentsCount" -> <<"0", "1", "2">>[data.commentsCount + 1]
          [] name = "closed" -> OrElse(data.closed, "")]

\* getVariableValue: the value a conditional block tests.
getVariableValue(variableName, data) ==
    CASE variableName = "closed" ->
            IF data.closed # Undefined THEN "true" ELSE Undefined
      [] variableName = "milestone" -> data.milestone
      [] variableName = "assignee" -> data.assignee
      [] variableName = "body" -> data.body
      [] OTHER -> Undefined

\* value && value !== "" && value !== "0" && value !== "false" && ...
IsMeaningful(value) ==
    value \notin {Undefined, "", "0", "false", "unknown", "unassigned"}

\* The index of the first "}" of a text, 0 if there is none.
FirstClose(text) ==
    LET at == {i \in 1..Len(text) : text[i] = "}"}
    IN IF at = {} THEN 0 ELSE CHOOSE i \in at : \A j \in at : i <= j

\* processConditionalBlocks: template.replace(/\{(\w+):(.*?)\}/g, ...).  A
\* match starts at a "{" followed by a name and a colon and ends at the
\* first "}" after them; the search goes on behind the match.
RECURSIVE processConditionalBlocks(_, _)
processConditionalBlocks(template, data) ==
    IF template = <<>> THEN <<>>
    ELSE IF /\ Len(template) >= 4
            /\ template[1] = "{" /\ template[2] \in ScalarNames /\ template[3] = ":"
            /\ FirstClose(template) # 0
    THEN (IF IsMeaningful(getVariableValue(template[2], data))
          THEN SubSeq(template, 4, FirstClose(template) - 1) ELSE <<>>)
         \o processConditionalBlocks(
                SubSeq(template, FirstClose(template) + 1, Len(template)), data)
    ELSE <<template[1]>> \o processConditionalBlocks(Tail(template), data)

\* The keys of replacements in the order Object.entries gives them.
ReplacementOrder ==
    <<"title", "number", "status", "author", "assignee", "body", "url",
      "milestone", "commentsCount", "closed">>

\* A value as the text it is: a value that reads {url} or {number} is a
\* brace, a name and a brace.
TokensOf(value) ==
    IF value = "{url}" THEN <<"{", "url", "}">>
    ELSE IF value = "{number}" THEN <<"{", "number", "}">>
    ELSE <<value>>

\* What String.prototype.replace puts for a match of {name} when the
\* replacement is the string value: $& in it stands for the match.
RECURSIVE Replacement(_, _)
Replacement(value, name) ==
    IF value = <<>> THEN <<>>
    ELSE (IF value[1] = "$&" THEN <<"{", name, "}">> ELSE <<value[1]>>)
         \o Replacement(Tail(value), name)

\* result.replace(new RegExp(escapeRegExp(placeholder), "g"), value): every
\* {name} of the text as it is at this turn of the loop.
RECURSIVE ReplaceAll(_, _, _)
ReplaceAll(text, name, value) ==
    IF text = <<>> THEN <<>>
    ELSE IF Len(text) >= 3 /\ text[1] = "{" /\ text[2] = name /\ text[3] = "}"
    THEN Replacement(TokensOf(value), name)
         \o ReplaceAll(SubSeq(text, 4, Len(text)), name, value)
    ELSE <<text[1]>> \o ReplaceAll(Tail(text), name, value)

\* for (const [placeholder, value] of Object.entries(replacements)): one
\* replace after the other, each on the result of the one before.
RECURSIVE ReplacePlaceholders(_, _, _)
ReplacePlaceholders(text, replacements, order) ==
    IF order = <<>> THEN text
    ELSE ReplacePlaceholders(ReplaceAll(text, order[1], replacements[order[1]]),
                             replacements, Tail(order))

\* processTemplate; a stretch of empty text is no text.
processTemplate(template, data) ==
    SelectSeq(ReplacePlaceholders(processConditionalBlocks(template, data),
                                  Replacements(data), ReplacementOrder),
              LAMBDA t : t # "")

----------------------------------------------------------------------------
(* Functions of the plugin applied on their own: call holds the function   *)
(* and its inputs, returned what it gave back.                             *)

\* The filename templates tried.
FilenameTemplates ==
    { IssueNumberTemplate, PrNumberTemplate, PullRequestFallbackTemplate,
      TitleTemplate, <<"{number}">>,
      <<"#", "{number}", " [", "{status}", "] ", "{author}">> }

\* The items a file name is rendered for.
NamedItems ==
    { [Item(RepoA, "issue", n, 1) EXCEPT !.title = t, !.state = s] :
        n \in 1..3, t \in Titles, s \in {"open", "closed"} }

\* A file name the user gave to a note of their own.
NoteName == <<"notes", ".md">>

FilenameCalls ==
    UNION { { [fn |-> "extractNumberFromFilename", template |-> t, issue |-> i,
               filename |-> f] : f \in {FileName(t, i), NoteName} } :
            t \in FilenameTemplates, i \in NamedItems }

\* The template data of items: createIssueTemplateData leaves assignee and
\* closed undefined when the item has none.
TemplateDatas ==
    { [title |-> "t1", number |-> 1, status |-> "open", url |-> "u",
       author |-> a, assignee |-> g, body |-> b, milestone |-> m,
       commentsCount |-> c, closed |-> d] :
        a \in {"unknown", "me"}, g \in {Undefined, "me"}, b \in {"", "text"},
        m \in {"", "v1"}, c \in {0, 2}, d \in {Undefined, "2024-01-15"} }

\* A conditional block on a variable: {name:kept}, or {name:on {name}} with
\* the variable at the end of its content.
BlockTemplate(name, nested) ==
    IF nested THEN <<"{", name, ":", "on ", "{", name, "}", "}">>
    ELSE <<"{", name, ":", "kept", "}">>

TemplateCalls ==
    { [fn |-> "processTemplate", name |-> n, nested |-> x,
       template |-> BlockTemplate(n, x), data |-> d] :
        n \in ScalarNames, x \in BOOLEAN, d \in TemplateDatas }

\* Repositories with every setting of the filters of one kind.
FilterRepos(k) ==
    { [RepositoryTracking(RepoA, TRUE, TRUE, FALSE) EXCEPT
          !.enableLabelFilter[k] = el, !.labelFilterMode[k] = lm,
          !.labelFilters[k] = lf, !.enableAssigneeFilter[k] = ea,
          !.assigneeFilterMode[k] = am, !.assigneeFilters[k] = af] :
        el \in BOOLEAN, lm \in {"include", "exclude"},
        lf \in {<<>>, <<"bug">>, <<"bug", "ui">>},
        ea \in BOOLEAN,
        am \in {"assigned-to-me", "assigned-to-specific", "unassigned",
                "any-assigned"},
        af \in {<<>>, <<"bob">>} }

\* An open item of a kind with its labels and assignees.
Labelled(k, n, labels, assignees) ==
    [Item(RepoA, k, n, 1) EXCEPT !.labels = labels, !.assignees = assignees]

\* The lists of open items that are filtered.
ItemLists(k) ==
    { <<>>,
      <<Labelled(k, 1, <<"bug">>, <<"me">>), Labelled(k, 2, <<>>, <<>>)>>,
      <<Labelled(k, 1, <<"ui">>, <<"bob">>), Labelled(k, 2, <<"bug", "ui">>, <<>>),
        Labelled(k, 3, <<"doc">>, <<"me", "bob">>)>>,
      <<Labelled(k, 1, <<>>, <<"ann">>), Labelled(k, 2, <<"bug">>, <<"bob">>),
        Labelled(k, 3, <<"bug">>, <<>>)>> }

FilterCalls ==
    UNION { { [fn |-> IF k = "issue" THEN "filterIssues" ELSE "filterPullRequests",
               kind |-> k, repo |-> repo, items |-> items, currentUser |-> "me"] :
                repo \in FilterRepos(k), items \in ItemLists(k) } : k \in Kinds }

\* Repositories whose own values all differ from the global defaults, with
\* every setting of the switches the merge reads.
MergeRepos ==
    { [RepositoryTracking(RepoA, TRUE, TRUE, FALSE) EXCEPT
          !.ignoreGlobalSettings = ig,
          !.updateMode = KindFn("none", "none"),
          !.allowDelete = KindFn(own, ~own),
          !.folder = KindFn(<<"Mine">>, <<"Mine PRs">>),
          !.useCustomFolder = KindFn(cfi, cfp),
          !.customFolder = KindFn(<<"Flat">>, IF own THEN <<>> ELSE <<"Flat PRs">>),
          !.noteTemplate = KindFn(TitleTemplate, PullRequestFallbackTemplate),
          !.contentTemplate = KindFn(TemplatePath, IF own THEN "" ELSE TemplatePath),
          !.useCustomContentTemplate = KindFn(cti, ctp),
          !.includeComments = KindFn(~own, own)] :
        ig \in BOOLEAN, own \in BOOLEAN, cfi \in BOOLEAN, cfp \in BOOLEAN,
        cti \in BOOLEAN, ctp \in BOOLEAN }

MergeDefaults ==
    { [GlobalDefaults(mode, allowDelete, FALSE) EXCEPT
          !.contentTemplate = KindFn("global.md", ""),
          !.includeComments = KindFn(allowDelete, ~allowDelete)] :
        mode \in {"update", "append"}, allowDelete \in BOOLEAN }

MergeCalls ==
    { [fn |-> "getEffectiveRepoSettings", repo |-> repo, globalDefaults |-> g] :
        repo \in MergeRepos, g \in MergeDefaults }

\* The names that are sanitized: every string of up to MaxNameLen of these
\* characters.
NameCharacters == {"a", ".", " ", "/", ":", "\n", "\t", "\r"}

Names == UNION {[1..n -> NameCharacters] : n \in 0..MaxNameLen}

SanitizeCalls == {[fn |-> "sanitizeFilename", filename |-> name] : name \in Names}

\* The template data of items whose title or body reads like a piece of a
\* template or of a replacement pattern.
QuotingDatas ==
    { [title |-> t, number |-> 1, status |-> "open", url |-> "u",
       author |-> "me", assignee |-> Undefined, body |-> b, milestone |-> "",
       commentsCount |-> 0, closed |-> Undefined] :
        t \in {"t1", "{url}", "{number}", "$&"},
        b \in {"text", "{url}", "{number}", "$&"} }

ContentTemplates ==
    { <<"{", "title", "}">>, <<"{", "body", "}">>,
      <<"# ", "{", "title", "}", " ", "{", "url", "}">>,
      <<"{", "number", "}", ": ", "{", "body", "}">> }

ContentCalls ==
    { [fn |-> "processContentTemplate", template |-> t, data |-> d] :
        t \in ContentTemplates, d \in QuotingDatas }

\* extractNumberFromFilename(file.name, template)
ExtractNumber ==
    /\ call.fn = "extractNumberFromFilename" /\ ~returned.done
    /\ returned' = [done |-> TRUE,
                    value |-> extractNumberFromFilename(call.filename,
                                                        call.template)]
    /\ UNCHANGED <<call, svars, pvars, tvars>>

\* processTemplate(template, data, dateFormat)
ProcessTemplate ==
    /\ call.fn = "processTemplate" /\ ~returned.done
    /\ returned' = [done |-> TRUE,
                    value |-> processTemplate(call.template, call.data)]
    /\ UNCHANGED <<call, svars, pvars, tvars>>

\* filterIssues(repo, issues) / filterPullRequests(repo, pullRequests)
FilterItems ==
    /\ call.fn \in {"filterIssues", "filterPullRequests"} /\ ~returned.done
    /\ returned' = [done |-> TRUE,
                    value |-> filterItems(call.repo, call.kind, call.items,
                                          call.currentUser)]
    /\ UNCHANGED <<call, svars, pvars, tvars>>

\* getEffectiveRepoSettings(repo, globalDefaults): the result is a new
\* object ({...repo, ...}) or the argument itself; the argument is not
\* assigned to.
GetEffectiveRepoSettings ==
    /\ call.fn = "getEffectiveRepoSettings" /\ ~returned.done
    /\ returned' = [done |-> TRUE,
                    value |-> getEffectiveRepoSettings(call.repo,
                                                       call.globalDefaults)]
    /\ UNCHANGED <<call, svars, pvars, tvars>>

\* sanitizeFilename(filename)
SanitizeFilename ==
    /\ call.fn = "sanitizeFilename" /\ ~returned.done
    /\ returned' = [done |-> TRUE, value |-> sanitizeFilename(call.filename)]
    /\ UNCHANGED <<call, svars, pvars, tvars>>

\* processContentTemplate(templateContent, data, dateFormat): processTemplate
\* on the content of a template file.
ProcessContentTemplate ==
    /\ call.fn = "processContentTemplate" /\ ~returned.done
    /\ returned' = [done |-> TRUE,
                    value |-> processTemplate(call.template, call.data)]
    /\ UNCHANGED <<call, svars, pvars, tvars>>

InitCalls ==
    /\ \/ call \in FilenameCalls
       \/ call \in ContentCalls
       \/ call \in SanitizeCalls
       \/ call \in TemplateCalls
       \/ call \in FilterCalls
       \/ call \in MergeCalls
    /\ returned = [done |-> FALSE]
    /\ TimerIdle
    /\ settings = Settings("update", "", FALSE, FALSE, TRUE)
    /\ locale = "en-US"
    /\ SyncInit
    /\ budget = [env |-> 0, passes |-> 0, faults |-> 0]
    /\ PersistIdle

NextCalls ==
    \/ ExtractNumber
    \/ ProcessTemplate
    \/ FilterItems
    \/ GetEffectiveRepoSettings
    \/ SanitizeFilename
    \/ ProcessContentTemplate

SpecCalls == InitCalls /\ [][NextCalls]_vars

----------------------------------------------------------------------------
(* What a pass may touch: passes over repositories with a label filter, a  *)
(* flat custom folder, tracking switched on and off, and notes of the      *)
(* user's own in the folders, without failures.                            *)

\* The settings with a label filter on the issues of the first repository
\* (filtered) and a flat custom folder for them (custom).
ScopeSettings(filtered, custom) ==
    [Settings("update", "yyyy-MM-dd HH:mm:ss", FALSE, FALSE, TRUE) EXCEPT
        !.repositories[1].enableLabelFilter["issue"] = filtered,
        !.repositories[1].labelFilterMode["issue"] = "exclude",
        !.repositories[1].labelFilters["issue"] =
            IF filtered THEN <<"wontfix">> ELSE <<>>,
        !.repositories[1].useCustomFolder["issue"] = custom,
        !.repositories[1].customFolder["issue"] =
            IF custom THEN <<"Flat">> ELSE <<>>]

InitScope ==
    /\ settings \in {ScopeSettings(filtered, custom) :
                        filtered \in BOOLEAN, custom \in BOOLEAN}
    /\ SyncInit
    /\ budget = [env |-> MaxEnv, passes |-> MaxPasses, faults |-> 0]
    /\ PersistIdle
    /\ CallIdle
    /\ TimerIdle

\* Someone changes the labels of an open item on the remote source.
RemoteRelabel(i, labels) ==
    /\ Idle
    /\ i \in remote /\ Movable(i)
    /\ i.state = "open"
    /\ labels # i.labels
    /\ remote' = (remote \ {i}) \cup {[i EXCEPT !.labels = labels, !.updated_at = now]}
    /\ Moved
    /\ UNCHANGED <<settings, locale, octokit, now, files, folders>>

\* The user switches the tracking of a kind of a repository on or off in
\* the settings.
SetTracking(r, k, on) ==
    /\ Idle
    /\ r \in 1..Len(settings.repositories)
    /\ settings.repositories[r].track[k] # on
    /\ settings' = [settings EXCEPT !.repositories[r].track[k] = on]
    /\ Moved
    /\ UNCHANGED <<locale, octokit, now, remote, files, folders>>

\* A note of the user's own: no number in its header or in its name; its
\* header, if it has one, says allowDelete: true.
NoteContent(header) ==
    IF header
    THEN JoinLines(<< <<DASH>>, <<HeaderLine("allowDelete", "true")>>, <<DASH>>,
                      <<>>, <<Txt("body")>> >>)
    ELSE <<Txt("body")>>

\* The folders of the repositories that are there.
RepoFolders ==
    { getFolderPath(getEffectiveRepoSettings(settings.repositories[r],
                                             settings.globalDefaults), k) :
        r \in {q \in 1..Len(settings.repositories) :
                  ValidRepository(settings.repositories[q])}, k \in Kinds }
    \cap folders

\* The user writes a note into the folder of a repository.
UserCreatesNote(dir, header) ==
    /\ Idle
    /\ dir \in RepoFolders
    /\ FileAt([files |-> files], dir, NoteName) = {}
    /\ files' = files \cup {[dir |-> dir, name |-> NoteName,
                              content |-> NoteContent(header), written |-> 0]}
    /\ Moved
    /\ UNCHANGED <<settings, locale, octokit, now, remote, folders>>

NextScope ==
    \/ \E trigger \in Triggers : Sync(trigger)
    \/ \E r \in 1..Len(settings.repositories) : SyncSingleRepository(r)
    \/ \E p \in passes : Reconcile(p)
    \/ \E p \in passes : CleanupEmptyFolders(p)
    \/ \E i \in remote, labels \in {<<>>, <<"wontfix">>} : RemoteRelabel(i, labels)
    \/ \E i \in remote : RemoteDelete(i)
    \/ \E r \in 1..Len(settings.repositories), k \in Kinds, on \in BOOLEAN :
            SetTracking(r, k, on)
    \/ \E dir \in folders, header \in BOOLEAN : UserCreatesNote(dir, header)

SpecScope == InitScope /\ [][NextScope]_vars

----------------------------------------------------------------------------
(* The periodic sync timer (main.ts) *)

\* Bound: the timers window.setInterval() hands out in a run.
MaxTimers == 4

\* Bound: the saveSettings() calls that wait for saveData() at a time.
MaxSaving == 2

\* The intervals, in minutes, the settings can hold.
Intervals == {0, 5}

\* stopBackgroundSync(): clear the timer the plugin remembers, if any.  The
\* identifier 0 stands for null.
stopBackgroundSync(b) ==
    IF b.backgroundSyncIntervalId # 0
    THEN [b EXCEPT !.intervals = @ \ {b.backgroundSyncIntervalId},
                   !.backgroundSyncIntervalId = 0]
    ELSE b

\* startBackgroundSync(): stop the timer, then register a new one if the
\* settings ask for it.
startBackgroundSync(b) ==
    LET stopped == stopBackgroundSync(b)
    IN  IF stopped.enableBackgroundSync /\ stopped.backgroundSyncInterval > 0
        THEN [stopped EXCEPT !.lastId = @ + 1,
                             !.backgroundSyncIntervalId = stopped.lastId + 1,
                             !.intervals = @ \cup {stopped.lastId + 1}]
        ELSE stopped

\* The other variables while the timer is looked at.
TimerOnly == UNCHANGED <<svars, pvars, cvars>>

\* onload(): the settings are read from the disk, and the last statement
\* starts the background sync.
Onload(enable, interval) ==
    /\ ~background.loaded
    /\ background.lastId < MaxTimers
    /\ background' = startBackgroundSync(
            [background EXCEPT !.loaded = TRUE,
                               !.enableBackgroundSync = enable,
                               !.backgroundSyncInterval = interval])
    /\ TimerOnly

\* onunload(): the timer is stopped.
Onunload ==
    /\ background.loaded
    /\ background' = [stopBackgroundSync(background) EXCEPT !.loaded = FALSE]
    /\ TimerOnly

\* The settings tab changes the background sync settings and calls
\* saveSettings(), which waits for saveData().
SaveSettingsCalled(enable, interval) ==
    /\ background.loaded
    /\ background.saving < MaxSaving
    /\ background' = [background EXCEPT !.enableBackgroundSync = enable,
                                        !.backgroundSyncInterval = interval,
                                        !.saving = @ + 1]
    /\ TimerOnly

\* saveData() is through: saveSettings() goes on and starts the background
\* sync.
SaveSettingsResumes ==
    /\ background.saving > 0
    /\ background.lastId < MaxTimers
    /\ background' = startBackgroundSync([background EXCEPT !.saving = @ - 1])
    /\ TimerOnly

\* A call of startBackgroundSync() on the loaded plugin.
StartBackgroundSync ==
    /\ background.loaded
    /\ background.lastId < MaxTimers
    /\ background' = startBackgroundSync(background)
    /\ TimerOnly

\* A call of stopBackgroundSync() on the loaded plugin.
StopBackgroundSync ==
    /\ background.loaded
    /\ background' = stopBackgroundSync(background)
    /\ TimerOnly

InitTimer ==
    /\ background \in {[Loaded EXCEPT !.loaded = FALSE, !.enableBackgroundSync = e,
                                     !.backgroundSyncInterval = i] :
                          e \in BOOLEAN, i \in Intervals}
    /\ settings = Settings("update", "", FALSE, FALSE, TRUE)
    /\ locale = "en-US"
    /\ SyncInit
    /\ budget = [env |-> 0, passes |-> 0, faults |-> 0]
    /\ PersistIdle
    /\ CallIdle

NextTimer ==
    \/ \E e \in BOOLEAN, i \in Intervals : Onload(e, i)
    \/ Onunload
    \/ \E e \in BOOLEAN, i \in Intervals : SaveSettingsCalled(e, i)
    \/ SaveSettingsResumes
    \/ StartBackgroundSync
    \/ StopBackgroundSync

SpecTimer == InitTimer /\ [][NextTimer]_vars

----------------------------------------------------------------------------
(* Where a pass writes and what it renders: passes under settings that put *)
(* both kinds of a repository into one folder, that move the global        *)
(* default folder, or that name a global content template; no failures, no *)
(* change of the surroundings.                                             *)

Layouts == {"plain", "flat", "base", "moved", "template"}

\* The settings of a layout: "flat" gives the issues and the pull requests
\* of the first repository the same flat custom folder, "base" gives both
\* kinds the same global folder, "moved" changes the global default folders
\* (the repositories keep their own folder values), "template" names the
\* template file in the global defaults.
LayoutSettings(layout, mode) ==
    LET s == Settings(mode, "yyyy-MM-dd HH:mm:ss", FALSE, FALSE, TRUE)
    IN  CASE layout = "flat" ->
                [s EXCEPT !.repositories[1].useCustomFolder = KindFn(TRUE, TRUE),
                          !.repositories[1].customFolder =
                                KindFn(<<"Flat">>, <<"Flat">>)]
          [] layout = "base" ->
                [s EXCEPT !.globalDefaults.folder =
                                KindFn(<<"GitHub">>, <<"GitHub">>)]
          [] layout = "moved" ->
                [s EXCEPT !.globalDefaults.folder =
                                KindFn(<<"Notes">>, <<"Notes PR">>)]
          [] layout = "template" ->
                [s EXCEPT !.globalDefaults.contentTemplate =
                                KindFn(TemplatePath, TemplatePath)]
          [] OTHER -> s

InitLayout ==
    /\ settings \in {LayoutSettings(layout, mode) :
                        layout \in Layouts, mode \in UpdateModes}
    /\ SyncInit
    /\ budget = [env |-> 0, passes |-> MaxPasses, faults |-> 0]
    /\ PersistIdle
    /\ CallIdle
    /\ TimerIdle

NextLayout ==
    \/ \E trigger \in Triggers : Sync(trigger)
    \/ \E r \in 1..Len(settings.repositories) : SyncSingleRepository(r)
    \/ \E p \in passes : Reconcile(p)
    \/ \E p \in passes : CleanupEmptyFolders(p)

SpecLayout == InitLayout /\ [][NextLayout]_vars

----------------------------------------------------------------------------
(* Properties *)


\* The operations of the pass on documents.
DocOps == {o \in log.ops : o.op \in {"create", "modify", "trash"}}

\* The pass of the record ran to its end without a failed listing and
\* without an error.
CleanPass == log.finished /\ log.fetchFailed = {} /\ log.threw = {}

\* C1: idempotence of reconciliation: when a full pass has ended without
\* failure, nothing has moved since (same remote items, no local edit, same
\* clock and settings) and a second pass runs to its end, the second pass
\* creates, modifies and trashes no document, whatever the update mode, the
\* date format and the content template.
C1_Idempotence == (CleanPass /\ log.stable) => DocOps = {}

\* The item a file the cleanup looked at stands for.
ItemsOf(s) ==
    {i \in remote : /\ i.repository = settings.repositories[s.r].repository
                    /\ i.kind = s.k
                    /\ NumStr(i.number) = s.number}

\* Deletion is allowed for a file: by its header when the header has the
\* key, else by the policy default.
Allowed(s) == IF s.header = "" THEN s.policy ELSE s.header = "true"

ClosedLongAgo(i) ==
    i.state = "closed" /\ i.closed_at < CutoffDate(now, settings.cleanupClosedIssuesDays)

ClosedRecently(i) ==
    i.state = "closed" /\ i.closed_at > CutoffDate(now, settings.cleanupClosedIssuesDays)

\* C4: retention deletion: in a pass, a document whose item was closed
\* longer ago than the retention window is trashed when deletion is allowed
\* for it and left in place when it is not, and a document whose item was
\* closed more recently than the window is left in place whatever the
\* delete flag says.
C4_RetentionDeletion ==
    \A s \in log.seen : \A i \in ItemsOf(s) :
        /\ (ClosedLongAgo(i) /\ Allowed(s) /\ <<s.r, s.k>> \notin log.threw)
                => s.trashed
        /\ (ClosedLongAgo(i) /\ ~Allowed(s)) => ~s.trashed
        /\ ClosedRecently(i) => ~s.trashed

\* C5: the allowDelete line of a document's header decides: reconciliation
\* trashes a document only if its header says allowDelete true, or has no
\* allowDelete key and the policy default allows deletion.
C5_HeaderDecides == \A s \in log.seen : s.trashed => Allowed(s)

\* C6: a failed listing drops the repository for the pass: when the listing
\* of a repository and kind fails, or there is no client, the pass creates,
\* modifies and trashes no document of that repository and kind.
C6_FailedFetchDrops == \A o \in DocOps : <<o.r, o.k>> \notin log.fetchFailed

\* A request was turned away in this step.
Rejected == notice' = "Already syncing..." /\ notice # "Already syncing..."

\* C7: sync passes never overlap: whatever the interleaving of the requests
\* (ribbon, command, startup, timer, single repository), at most one pass is
\* between its start and its end, and a request that arrives during a pass
\* fetches nothing, touches no file and leaves nothing behind that could
\* start a pass later.
C7_NoOverlap ==
    [][ /\ Cardinality(passes') <= 1
        /\ Rejected => /\ passes # {}
                       /\ UNCHANGED <<settings, locale, octokit, now, remote,
                                      files, folders, isSyncing, passes, log,
                                      stable, budget>> ]_vars

C7_Witness == passes # {} /\ notice = "Already syncing..."

\* The repositories and kinds a full pass has to reconcile.
Tracked ==
    {<<r, k>> \in (1..Len(settings.repositories)) \X Kinds :
        settings.repositories[r].track[k] /\ ValidRepository(settings.repositories[r])}

\* C8: failure isolation: when a full pass has ended, every tracked
\* repository and kind other than those whose reconciliation raised an error
\* has been reconciled, and the folder cleanup has run.
C8_FailureIsolation ==
    (log.finished /\ log.single = 0) =>
        /\ \A t \in Tracked : t \in log.done \cup log.threw
        /\ log.cleanupRan

C8_Witness ==
    /\ log.finished /\ log.single = 0 /\ log.cleanupRan
    /\ log.threw # {}
    /\ \E t \in log.done, u \in log.threw : t[1] > u[1]

\* The documents of a repository and kind with the number n in the header.
DocsOf(r, k, n) ==
    {f \in files :
        /\ f.dir = getFolderPath(getEffectiveRepoSettings(settings.repositories[r],
                                    settings.globalDefaults), k)
        /\ extractProperties(f.content).number = n}

\* C9: at most one document per item: there are never two documents of the
\* same repository, kind and number.
C9_OneDocPerItem ==
    \A t \in Tracked : \A n \in 1..3 : Cardinality(DocsOf(t[1], t[2], n)) <= 1

\* C10: the staleness rule of update mode: an existing document whose header
\* has the updated line is overwritten if and only if the item's updated_at
\* is later than the one the header was rendered from.
C10_Staleness ==
    \A d \in log.dec :
        (d.mode = "update" /\ d.headed) =>
            ((d.what = "update") <=> (d.remote > d.recorded))

\* The blocks of the existing document, as the pattern finds them.
OldBlocks == PersistMatches(oldDoc, 1)

\* C2: after an update-mode overwrite the new document contains every persist
\* block of the old document verbatim: the marker pair as written and the
\* inner content.
C2_PersistRoundTrip ==
    ppc = "done" =>
        \A i \in 1..Len(OldBlocks) :
            Contains(merged, SubSeq(oldDoc, OldBlocks[i].lo, OldBlocks[i].hi))

\* C3: after an update-mode overwrite the inner content of every persist
\* block occurrence of the old document, two blocks of one name included, is
\* still in the document.
C3_NoPersistContentLost ==
    ppc = "done" =>
        \A i \in 1..Len(OldBlocks) :
            Contains(merged, SubSeq(oldDoc, OldBlocks[i].lo + 1, OldBlocks[i].hi - 1))

\* Every tracked repository has the effective update mode "none" for both
\* kinds.
ModeNone ==
    \A r \in 1..Len(settings.repositories) : \A k \in Kinds :
        getEffectiveRepoSettings(settings.repositories[r],
                                 settings.globalDefaults).updateMode[k] = "none"

C13_FilenameRoundTrip ==
    (call.fn = "extractNumberFromFilename" /\ returned.done) =>
        returned.value = IF call.filename = FileName(call.template, call.issue)
                         THEN NumStr(call.issue.number) ELSE ""

\* C14: a conditional block whose content ends with a variable, such as
\* {closed:Closed on {closed}}, renders to nothing when the variable is
\* falsy, and to its content with the variable put in, without a brace left
\* over, when it is truthy.  Stated of the variables getVariableValue knows.
C14_NestedConditional ==
    (/\ call.fn = "processTemplate" /\ returned.done /\ call.nested
     /\ call.name \in {"closed", "milestone", "assignee", "body"}) =>
        returned.value =
            IF IsMeaningful(Replacements(call.data)[call.name])
            THEN <<"on ", Replacements(call.data)[call.name]>> ELSE <<>>

\* C15: a conditional block on a variable of scalar substitution keeps its
\* content exactly when the variable's value is there and is none of "",
\* "0", "false", "unknown", "unassigned".
C15_Truthiness ==
    (call.fn = "processTemplate" /\ returned.done /\ ~call.nested) =>
        returned.value =
            IF IsMeaningful(Replacements(call.data)[call.name])
            THEN <<"kept">> ELSE <<>>

FilterCall == call.fn \in {"filterIssues", "filterPullRequests"} /\ returned.done

\* The label predicate of the specification for a filter set.
PassesLabels(item, mode, set) ==
    IF mode = "include" THEN Range(item.labels) \cap set # {}
    ELSE Range(item.labels) \cap set = {}

\* The assignee predicate of the specification.
PassesAssignees(item, mode, names, me) ==
    CASE mode = "assigned-to-me" -> me \in Range(item.assignees)
      [] mode = "assigned-to-specific" -> Range(item.assignees) \cap names # {}
      [] mode = "unassigned" -> item.assignees = <<>>
      [] mode = "any-assigned" -> item.assignees # <<>>

\* C16 as stated: with the label filter on (and the assignee filter off),
\* for every filter set, the empty one included, include keeps exactly the
\* items with a label of the set and exclude exactly those with none.
C16_LabelFilterAnySet ==
    (/\ FilterCall
     /\ call.repo.enableLabelFilter[call.kind]
     /\ ~call.repo.enableAssigneeFilter[call.kind]) =>
        returned.value = SelectSeq(call.items, LAMBDA item :
            PassesLabels(item, call.repo.labelFilterMode[call.kind],
                         Range(call.repo.labelFilters[call.kind])))

\* C16: with the label filter on, for every filter set that is not empty,
\* include keeps exactly the items with a label of the set and exclude
\* exactly those with none; with an empty set every item is kept.
C16_LabelFilter ==
    (/\ FilterCall
     /\ call.repo.enableLabelFilter[call.kind]
     /\ ~call.repo.enableAssigneeFilter[call.kind]) =>
        returned.value =
            IF call.repo.labelFilters[call.kind] = <<>> THEN call.items
            ELSE SelectSeq(call.items, LAMBDA item :
                    PassesLabels(item, call.repo.labelFilterMode[call.kind],
                                 Range(call.repo.labelFilters[call.kind])))

C16_Witness ==
    /\ FilterCall
    /\ call.repo.enableLabelFilter[call.kind]
    /\ ~call.repo.enableAssigneeFilter[call.kind]
    /\ call.repo.labelFilterMode[call.kind] = "exclude"
    /\ call.repo.labelFilters[call.kind] # <<>>
    /\ returned.value # <<>> /\ returned.value # call.items
    /\ \E i \in 1..Len(returned.value) : returned.value[i].labels = <<>>

\* C17 as stated: with both filters off the input is returned; with both on
\* an item is kept exactly when it passes the label predicate and the
\* assignee predicate.
C17_CompositionAnySet ==
    FilterCall =>
        /\ (/\ ~call.repo.enableLabelFilter[call.kind]
            /\ ~call.repo.enableAssigneeFilter[call.kind])
                => returned.value = call.items
        /\ (/\ call.repo.enableLabelFilter[call.kind]
            /\ call.repo.enableAssigneeFilter[call.kind])
                => returned.value = SelectSeq(call.items, LAMBDA item :
                    /\ PassesLabels(item, call.repo.labelFilterMode[call.kind],
                                    Range(call.repo.labelFilters[call.kind]))
                    /\ PassesAssignees(item, call.repo.assigneeFilterMode[call.kind],
                                       Range(call.repo.assigneeFilters[call.kind]),
                                       call.currentUser))

\* C17: with both filters off the input is returned; with both on an item
\* is kept exactly when it passes the assignee predicate and, unless the
\* label filter set is empty, the label predicate.
C17_Composition ==
    FilterCall =>
        /\ (/\ ~call.repo.enableLabelFilter[call.kind]
            /\ ~call.repo.enableAssigneeFilter[call.kind])
                => returned.value = call.items
        /\ (/\ call.repo.enableLabelFilter[call.kind]
            /\ call.repo.enableAssigneeFilter[call.kind])
                => returned.value = SelectSeq(call.items, LAMBDA item :
                    /\ \/ call.repo.labelFilters[call.kind] = <<>>
                       \/ PassesLabels(item, call.repo.labelFilterMode[call.kind],
                                       Range(call.repo.labelFilters[call.kind]))
                    /\ PassesAssignees(item, call.repo.assigneeFilterMode[call.kind],
                                       Range(call.repo.assigneeFilters[call.kind]),
                                       call.currentUser))

C17_Witness ==
    /\ FilterCall
    /\ call.repo.enableLabelFilter[call.kind]
    /\ call.repo.enableAssigneeFilter[call.kind]
    /\ call.repo.labelFilters[call.kind] # <<>>
    /\ call.repo.assigneeFilterMode[call.kind] = "assigned-to-me"
    /\ Len(returned.value) = 1
    /\ \E i \in 1..Len(call.items) :
          /\ call.currentUser \notin Range(call.items[i].assignees)
          /\ call.items[i].assignees # <<>>
          /\ PassesLabels(call.items[i], call.repo.labelFilterMode[call.kind],
                          Range(call.repo.labelFilters[call.kind]))

\* The effective policy of the specification, field by field.
MergedPolicy(repo, g) ==
    IF repo.ignoreGlobalSettings THEN repo
    ELSE [field \in DOMAIN repo |->
            CASE field \in {"updateMode", "allowDelete", "noteTemplate",
                            "includeComments"} -> g[field]
              [] field = "folder" ->
                    [k \in Kinds |-> IF repo.useCustomFolder[k]
                                     THEN repo.customFolder[k] ELSE g.folder[k]]
              [] field = "contentTemplate" ->
                    [k \in Kinds |-> IF repo.useCustomContentTemplate[k]
                                     THEN repo.contentTemplate[k]
                                     ELSE g.contentTemplate[k]]
              [] OTHER -> repo[field]]

\* C18: getEffectiveRepoSettings returns the repository's settings as they
\* are when ignoreGlobalSettings is set; otherwise update mode, delete
\* permission, filename template and comment inclusion are the global ones,
\* folder and content template the repository's custom value under its
\* custom flag and the global one without it; the repository record given
\* to the call is the same after the call.
C18_EffectiveMerge ==
    [][ (call.fn = "getEffectiveRepoSettings" /\ returned'.done) =>
            /\ returned'.value = MergedPolicy(call.repo, call.globalDefaults)
            /\ call' = call ]_vars

C18_Witness ==
    /\ call.fn = "getEffectiveRepoSettings" /\ returned.done
    /\ ~call.repo.ignoreGlobalSettings
    /\ call.repo.useCustomFolder["issue"] /\ ~call.repo.useCustomFolder["pr"]
    /\ returned.value.folder["issue"] = <<"Flat">>
    /\ returned.value.folder["pr"] = <<"GitHub Pull Requests">>
    /\ returned.value.updateMode # call.repo.updateMode
    /\ returned.value.includeComments # call.repo.includeComments

\* The filters of the repository of a file the cleanup looked at leave the
\* item out.
FilteredOut(s, i) ==
    filterItems(settings.repositories[s.r], s.k, <<i>>, CurrentUser) = <<>>

\* C12: a document whose item is still open on the remote source but is
\* left out by the repository's filters is trashed in the pass when
\* deletion is allowed for it.
C12_FilteredOutDeleted ==
    \A s \in log.seen : \A i \in ItemsOf(s) :
        (i.state = "open" /\ FilteredOut(s, i) /\ Allowed(s)) => s.trashed

\* The repository uses a flat custom folder for a kind.
CustomLayout(repo, k) == repo.useCustomFolder[k] /\ repo.customFolder[k] # <<>>

\* The repository-level and owner-level folders of the repositories of the
\* hierarchical layout.
HierarchicalFolders ==
    UNION { LET repo == getEffectiveRepoSettings(settings.repositories[r],
                                                 settings.globalDefaults)
            IN IF ValidRepository(repo) /\ ~CustomLayout(repo, k)
               THEN {repo.folder[k] \o <<Owner(repo), RepoName(repo)>>,
                     repo.folder[k] \o <<Owner(repo)>>}
               ELSE {} :
            r \in 1..Len(settings.repositories), k \in Kinds }

CustomFolders ==
    { settings.repositories[r].customFolder[k] :
        r \in {q \in 1..Len(settings.repositories) :
                  \E j \in Kinds : CustomLayout(settings.repositories[q], j)},
        k \in {j \in Kinds : \E q \in 1..Len(settings.repositories) :
                  CustomLayout(settings.repositories[q], j)} }
    \ {<<>>}

\* The pass has processed what it has to: a full pass every tracked
\* repository and kind, a pass for one repository the tracked kinds of it.
Processed ==
    \A t \in Tracked :
        (log.single = 0 \/ log.single = t[1]) => t \in log.done \cup log.threw

Ambiguous(f) ==
    /\ extractProperties(f.content).number = 0
    /\ \A i \in 1..Len(f.name) : ~IsDigits(f.name[i])

\* C20: a document in a repository folder whose number cannot be told is
\* neither modified nor trashed by any step of a pass, the folder cleanup
\* for a kind whose tracking is switched off included.
C20_AmbiguousUntouched ==
    [][ passes # {} => \A f \in files : Ambiguous(f) => f \in files' ]_vars

\* C21: the result of sanitizeFilename has none of the characters
\* < > : " | ? * \ /, no newline and no tab, neither a dot nor whitespace at
\* its start or at its end, and at most 255 characters.
C21_Sanitized ==
    (call.fn = "sanitizeFilename" /\ returned.done) =>
        LET name == returned.value
        IN /\ \A i \in 1..Len(name) :
                name[i] \notin InvalidCharacters \cup {"\n", "\t"}
           /\ name # <<>> =>
                /\ name[1] \notin Whitespace \cup {"."}
                /\ name[Len(name)] \notin Whitespace \cup {"."}
           /\ Len(name) <= 255

\* C22: whatever a step of a pass removes, a document or a folder, it
\* removes by the trash operation of the file store: the retention cleanup,
\* the cleanup for a kind that is not tracked and the cleanup of empty
\* folders alike.
C22_TrashOnly ==
    [][ passes # {} =>
          /\ \A f \in files :
                FileAt([files |-> files'], f.dir, f.name) = {} =>
                    \E o \in log'.ops :
                        o.op = "trash" /\ o.dir = f.dir /\ o.name = f.name
          /\ \A d \in folders \ folders' :
                \E o \in log'.ops : o.op = "trashFolder" /\ o.dir = d
          /\ \A o \in log'.ops :
                o.op \in {"create", "modify", "trash", "trashFolder"} ]_vars

C22_Witness ==
    /\ \E o \in log.ops : o.op = "trash" /\ o.by = "reconcile"
    /\ \E o \in log.ops : o.op = "trash" /\ o.by = "folders"
    /\ \E o \in log.ops : o.op = "trashFolder"

\* The lines of the structured header of the fresh rendering, its two
\* delimiter lines included; none when it has no header.
NewHeader ==
    SubSeq(SplitLines(newDoc), 1, FrontmatterEnd(SplitLines(newDoc)))

\* C23: a persist block that is put back by position is never put between
\* the opening and the closing delimiter line of the header of the fresh
\* rendering, whether a context line or the relative position chose the
\* place: the header's lines stay together in the document written.
C23_HeaderIntact ==
    (ppc = "done" /\ NewHeader # <<>>) => Contains(SplitLines(merged), NewHeader)

\* The text with every {name} replaced by the value as it reads, in one
\* pass over the text.
RECURSIVE SinglePass(_, _)
SinglePass(text, replacements) ==
    IF text = <<>> THEN <<>>
    ELSE IF /\ Len(text) >= 3
            /\ text[1] = "{" /\ text[2] \in ScalarNames /\ text[3] = "}"
    THEN TokensOf(replacements[text[2]])
         \o SinglePass(SubSeq(text, 4, Len(text)), replacements)
    ELSE <<text[1]>> \o SinglePass(Tail(text), replacements)

\* C25: substitution is single-pass: a value put for a {name} token stands
\* in the output as it reads; a value that reads {url} or {number}, or $&,
\* is not expanded by a later substitution.
C25_SinglePass ==
    (call.fn = "processContentTemplate" /\ returned.done) =>
        returned.value = SinglePass(call.template, Replacements(call.data))

\* C26: Whenever no saveSettings() call is waiting, at most one periodic sync
\* timer is registered; one is registered only if background sync is enabled
\* with an interval greater than zero; and none is registered once the plugin
\* is unloaded.
C26_OneTimer ==
    background.saving = 0 =>
        /\ Cardinality(background.intervals) <= 1
        /\ background.intervals # {} =>
                /\ background.enableBackgroundSync
                /\ background.backgroundSyncInterval > 0
        /\ ~background.loaded => background.intervals = {}

\* C27: The syncing flag is set exactly while a pass is in progress, and
\* every pass that started, full or for one repository, ends with the flag
\* cleared, also when a step of it raised an error.
C27_FlagReleased ==
    /\ [](isSyncing <=> passes # {})
    /\ (isSyncing ~> ~isSyncing)

C27_Witness ==
    /\ log.finished /\ log.single # 0 /\ log.threw # {}
    /\ ~isSyncing /\ passes = {}
    /\ notice = "Synced"

\* C24: no step of a pass for a repository and a kind trashes a document
\* that the pass created for another repository or for the other kind.
C24_OwnDocumentsOnly ==
    \A o \in log.ops, c \in log.ops :
        (o.op = "trash" /\ c.op = "create" /\ o.dir = c.dir /\ o.name = c.name)
            => (o.r = c.r /\ o.k = c.k)

\* The global defaults name a template file that can be read, and no
\* repository sets its own content template.
GlobalTemplateNamed ==
    /\ \A k \in Kinds : settings.globalDefaults.contentTemplate[k] = TemplatePath
    /\ \A r \in 1..Len(settings.repositories) :
          /\ ~settings.repositories[r].ignoreGlobalSettings
          /\ \A k \in Kinds : ~settings.repositories[r].useCustomContentTemplate[k]

\* C28: when the global defaults name a readable content template and the
\* repositories neither ignore the global settings nor set a template of
\* their own, every document a pass created is rendered from the template.
C28_GlobalTemplate ==
    GlobalTemplateNamed =>
        \A f \in files :
            (\E o \in log.ops : o.op = "create" /\ o.dir = f.dir /\ o.name = f.name)
                => \E i \in remote :
                      f.content = TemplateContent(i, settings.dateFormat, locale)

\* C29: when a full pass has ended, there is a trace for every repository
\* with tracked issues or pull requests whose identifier is malformed.
C29_SkipTraced ==
    (log.finished /\ log.single = 0) =>
        \A r \in 1..Len(settings.repositories), k \in Kinds :
            (settings.repositories[r].track[k]
             /\ ~ValidRepository(settings.repositories[r]))
                => <<r, k>> \in log.traces

\* C30: when a pass has cleaned up the folders, the folder it wrote the
\* documents of a repository and kind to is a folder the cleanup looked at
\* for that repository and kind.
C30_SameFolders ==
    (log.finished /\ log.cleanupRan) =>
        \A o \in log.ops :
            o.op \in {"create", "modify"} =>
                \E l \in log.looked : l.r = o.r /\ l.k = o.k /\ l.dir = o.dir

=============================================================================
